---- MODULE Spec2Model ----
(***************************************************************************)
(* Session and synchronization layer of ChainCycles (frontend).            *)
(*                                                                         *)
(*   LineraAdapterClass  frontend/src/lib/linera/lineraAdapter.ts          *)
(*   pollRoomUpdates     frontend/src/lib/gameApi.ts                       *)
(*   useGameStore        frontend/src/stores/lineraStore.ts                *)
(*   useLineraStore      frontend/src/stores/lineraStore.ts                *)
(*   DynamicSigner       frontend/src/lib/linera/index.ts                  *)
(*   joinRoom, ensureWasmInitialized   frontend/src/lib/gameApi.ts         *)
(*                                                                         *)
(* The program runs on one JavaScript event loop.  Every `await` on a      *)
(* remote call, a timer or a module import is a suspension point and is a  *)
(* separate action here; the code between two suspension points runs to    *)
(* completion and is one action.  The reactions of one promise are         *)
(* enqueued together when it settles, so the settling of the connect body  *)
(* and the continuations of the callers that await connectPromise form one *)
(* action (Settle).                                                         *)
(***************************************************************************)
EXTENDS Integers, Sequences, FiniteSets, TLC

----------------------------------------------------------------------------
(* Bounds *)

NCallers == 2
MaxAttempts == 2
MaxRequests == 2
MaxPolls == 4
MaxOps == 2
MaxSigns == 2
MaxInits == 2
MaxJoins == 11
Callers == 1..NCallers
\* the slots of the calls that can be in flight at once, and of the pollers
Reqs == {1, 2}
Pollers == {1, 2}

----------------------------------------------------------------------------
(* Values *)

\* null of a nullable object reference
Null == [null |-> TRUE]
\* null of ConnectionState.userAddress / autoSignerAddress
NullAddr == <<>>
\* localStorage entries: <<>> for a missing key (getItem returns null),
\* <<v>> for a key that holds v
Absent == <<>>
Stored(v) == <<v>>

\* Addresses are strings, modelled as sequences of character codes:
\* "A" = <<65>>, "a" = <<97>>, "b" = <<98>>.
WalletAddresses == { <<65>>, <<97>>, <<98>> }

\* String.prototype.toLowerCase on the ASCII range
ToLowerCase(s) == [i \in 1..Len(s) |-> IF s[i] \in 65..90 THEN s[i] + 32 ELSE s[i]]

\* signerModule.PrivateKey.createRandom().address(): a fresh key per call,
\* "k1", "k2", ... for the n-th connect body
KeyAddress(n) == <<107, 48 + n>>

\* errors thrown by the remote services (faucet, validators, module import)
ErrorValues == { "E1", "E2" }

K_CHAIN_ID == "chaincycles_chain_id"
K_USER_ADDRESS == "chaincycles_user_address"
K_AUTO_SIGNER == "chaincycles_auto_signer"
K_MNEMONIC == "chaincycles_mnemonic_0xold"
K_RECENT_ROOMS == "chaincycles_recent_rooms"
StorageKeys == { K_CHAIN_ID, K_USER_ADDRESS, K_AUTO_SIGNER, K_MNEMONIC, K_RECENT_ROOMS }

\* key.startsWith('chaincycles_mnemonic_')
IsMnemonicKey(k) == k = K_MNEMONIC

----------------------------------------------------------------------------
VARIABLES
  connection,          \* LineraAdapterClass.connection
  appConnection,       \* LineraAdapterClass.appConnection
  connectPromise,      \* 0 = null, c = the promise of caller c's connect body
  lineraClientModule,  \* module cache of getLineraClient (TRUE = loaded)
  localStorage,        \* window.localStorage, by key
  call,                \* the connect()/connectWithPrivateKey() calls, by caller
  attempts,            \* connect bodies started so far
  claimCalls,          \* faucet.claimChain invocations so far
  cohort,              \* calls issued while no session existed, none settled yet
  cohortOpen,          \* no call of cohort has settled
  cohortClaims,        \* claimChain invocations since the cohort opened
  cohortStarted,       \* a call of cohort started the connect body
  ended,               \* clients of the sessions that disconnect() ended
  req,                 \* the query/mutate/queryWithSync/connectApplication calls
  issued,              \* such calls issued so far
  poll,                \* the pollRoomUpdates instances
  gameStore,               \* useGameStore: room, isLoading, error, pollCanceller
  thens,               \* queued `.then(canceller => set({pollCanceller}))` jobs
  op,                  \* the calls of the game store's async operations
  opsIssued,           \* such calls issued so far
  signer,              \* a DynamicSigner: its wallet's address, cachedAddress
  sig,                 \* the address()/containsKey()/sign() calls on that signer
  wasm,                \* gameApi.ts: wasmInitialized, wasmInitPromise, the initWasm runs
  wcall,               \* the ensureWasmInitialized() calls
  join,                \* the gameApi joinRoom() calls
  lineraStore,         \* useLineraStore: its state and its connect actions in flight
  overtaken            \* history: the connect calls in flight when disconnect() last ran

adapterVars == <<connection, appConnection, connectPromise, lineraClientModule,
                 localStorage>>
connectVars == <<call, attempts, claimCalls>>
cohortVars == <<cohort, cohortOpen, cohortClaims, cohortStarted>>
gatewayVars == <<req, issued>>
storeVars == <<gameStore, thens, op, opsIssued>>
libVars == <<signer, sig, wasm, wcall, join, lineraStore, overtaken>>
vars == <<adapterVars, connectVars, cohortVars, ended, gatewayVars, poll, storeVars,
          libVars>>

\* what the connect calls and their bodies leave alone
outsideConnect == <<ended, gatewayVars, poll, storeVars, libVars>>

\* what the adapter's methods leave alone; the store that called them goes on
\* and the history variable records them
outsideAdapter == <<ended, gatewayVars, poll, storeVars, signer, sig, wasm, wcall, join>>

\* what a direct call of an adapter method leaves alone besides
above == <<lineraStore, overtaken>>

----------------------------------------------------------------------------
(* LineraAdapterClass: state helpers *)

\* getState()
GetState(conn) ==
  IF conn = Null
  THEN [isConnected |-> FALSE, chainId |-> 0, userAddress |-> NullAddr,
        autoSignerAddress |-> NullAddr]
  ELSE [isConnected |-> TRUE, chainId |-> conn.chainId, userAddress |-> conn.address,
        autoSignerAddress |-> conn.autoSignerAddress]

Resolved(st) == [ok |-> TRUE, state |-> st, error |-> ""]
Rejected(e) == [ok |-> FALSE, state |-> GetState(Null), error |-> e]
NoResult == [ok |-> FALSE, state |-> GetState(Null), error |-> "pending"]

IdleCall == [pc |-> "idle", kind |-> "none", userAddress |-> NullAddr, n |-> 0,
             autoSigner |-> NullAddr, chainId |-> 0, registeredOwner |-> NullAddr,
             client |-> 0, waitOn |-> 0, how |-> "none", result |-> NoResult]

\* IdleCall.how: the branch a call took, "noop" (already connected), "joined"
\* (awaits the body in flight) or "started" (runs the body)

\* suspension points of performConnect / performConnectWithPrivateKey
BodySteps == { "wasm", "load", "wallet", "claim", "owner", "client", "chain" }

\* connect(): line 135, the session check against the lowercased wallet address
AlreadyConnectedComparingRaw(conn, walletAddress) ==
  conn # Null /\ conn.address = walletAddress
AlreadyConnected(conn, walletAddress) ==
  conn # Null /\ conn.address = ToLowerCase(walletAddress)

\* connect(): `finally { this.connectPromise = null }`
ClearOnSuccessOnly(cp, ok) == IF ok THEN 0 ELSE cp
FinallyConnectPromise(cp, ok) == 0

\* performConnect: `catch { this.connection = null; throw error }`
CatchKeepsConnection(conn) == conn
CatchConnection(conn) == Null

\* connect(): line 141, a connect body is in flight
JoinNever(cp) == FALSE
ConnectionInProgress(cp) == cp # 0

----------------------------------------------------------------------------
(* Bookkeeping of the calls issued while no session exists *)

\* caller c issues a call; started = it starts the connect body
CohortIssue(c, started) ==
  IF connection = Null
  THEN IF cohortOpen
       THEN /\ cohort' = cohort \cup {c}
            /\ cohortStarted' = (cohortStarted \/ started)
            /\ UNCHANGED <<cohortOpen, cohortClaims>>
       ELSE /\ cohort' = {c}
            /\ cohortOpen' = TRUE
            /\ cohortClaims' = 0
            /\ cohortStarted' = started
  ELSE /\ cohort' = cohort \ {c}
       /\ UNCHANGED <<cohortOpen, cohortClaims, cohortStarted>>

\* the calls in `settled` settle
CohortSettle(settled) ==
  /\ cohortOpen' = (cohortOpen /\ settled \cap cohort = {})
  /\ UNCHANGED <<cohort, cohortClaims, cohortStarted>>

----------------------------------------------------------------------------
(* Remote calls: values *)

\* VITE_APPLICATION_ID of the build
APPLICATION_ID == "app1"
AppIds == { "app1", "app2", "" }

\* the handle chain.application(id) resolves to, for the client and chain it
\* was resolved from
Handle(client, chainId, id) == [client |-> client, chainId |-> chainId, id |-> id]
NoHandle == Handle(0, 0, "")

\* The parsed response envelope {data?, errors?: [{message}]}.  errors is <<>>
\* when the key is missing and <<arr>> when it holds the array arr of
\* messages; every error object carries a non-empty message.
NoErrors == <<>>
Errors(arr) == <<arr>>
Envelopes == [data : {"D1", "D2"},
              errors : {NoErrors, Errors(<<>>), Errors(<<"m2", "m1">>)}]
NoEnvelope == [data |-> "", errors |-> NoErrors]

\* confirmation attempts of mutate(): `for (let i = 0; i < 3; i++)`
SyncAttempts == 3

ReturnValue(v) == [ok |-> TRUE, value |-> v, error |-> ""]
Throw(e) == [ok |-> FALSE, value |-> "", error |-> e]
Pending == [ok |-> FALSE, value |-> "", error |-> "pending"]

IdleReq == [pc |-> "idle", kind |-> "none", appId |-> "", client |-> 0, chainId |-> 0,
            via |-> NoHandle, stale |-> FALSE, parsed |-> NoEnvelope,
            sleeps |-> 0, syncs |-> 0, swallowed |-> FALSE, result |-> Pending,
            \* connection and appConnection when query()/mutate() was entered
            before |-> <<Null, Null>>]

----------------------------------------------------------------------------
(* pollRoomUpdates: values *)

\* A room snapshot is null (0) or a room object; the room objects differ in
\* one character, "A" (65) or "B" (66).
NullRoom == 0
Rooms == { NullRoom, 65, 66 }

\* JSON.stringify(room), as a sequence of character codes: "null" for null,
\* "{A}" / "{B}" for a room object
JsonStringify(room) ==
  IF room = NullRoom THEN <<110, 117, 108, 108>> ELSE <<123, room, 125>>

\* lastRoom: string | null, <<>> for null and <<s>> for the string s
JsNull == <<>>
Str(s) == <<s>>

\* default arguments of pollRoomUpdates (milliseconds)
Interval == 2000
MaxInterval == 5000

Min(a, b) == IF a <= b THEN a ELSE b

\* Math.min(currentInterval * 1.5, maxInterval)
BackoffUncapped(currentInterval, maxInterval) == (currentInterval * 3) \div 2
Backoff(currentInterval, maxInterval) == Min((currentInterval * 3) \div 2, maxInterval)

\* arguments a caller may pass instead: a base interval above maxInterval
IntervalArgs == { Interval, 3 * Interval }
MaxIntervalArgs == { MaxInterval }

\* The closure of one pollRoomUpdates call.  interval and maxInterval are its
\* arguments; inflight counts the getRoomSynced() calls that have not settled,
\* timers the pending setTimeout timers, fetches the getRoomSynced() calls
\* made so far; delay is the delay of the timer set last; cancelledAt is the
\* number of callback invocations made when the cancel function was called
\* (-1 before that).  callback is the function passed in: "setRoom" is the
\* store's `(room) => set({ room })`, "record" a caller's own function.
IdlePoll == [pc |-> "idle", running |-> FALSE, pollCount |-> 0,
             interval |-> Interval, maxInterval |-> MaxInterval,
             currentInterval |-> Interval, lastRoom |-> JsNull,
             inflight |-> 0, timers |-> 0, fetches |-> 0, delay |-> 0,
             cancelledAt |-> -1, callback |-> "record",
             fetched |-> <<>>, delivered |-> <<>>]

----------------------------------------------------------------------------
(* useLineraStore: values *)

\* chainId: string | null
NoChain == 0
\* profile: PlayerProfile | null; a loaded profile is 1
NoProfile == 0
Profiles == { NoProfile, 1 }

\* the store before any action; acts[c] is the position of the connect action
\* that uses the adapter call slot c: "idle", "connect" (awaits
\* lineraAdapter.connect / connectWithPrivateKey), "profile" (awaits
\* getCurrentPlayerProfile), "register" (awaits registerPlayer), "reload"
\* (awaits the second getCurrentPlayerProfile)
InitialLineraStore ==
  [isConnecting |-> FALSE, isConnected |-> FALSE, error |-> <<>>,
   chainId |-> NoChain, userAddress |-> NullAddr, autoSignerAddress |-> NullAddr,
   profile |-> NoProfile, acts |-> [c \in Callers |-> "idle"]]

----------------------------------------------------------------------------
(* useGameStore: values *)

\* the slots of the store operations that can be in flight at once
Ops == {1, 2}

\* GameState.error: string | null, <<>> for null and <<s>> for the message s
NoError == <<>>
ErrorText(e) == <<e>>

\* One call of a store operation.  awaiting names the gameApi call it awaits;
\* roomBefore is the store's room when the call was made; cause holds the error
\* of the gameApi call that rejected (<<>> when none did).
IdleOp == [pc |-> "idle", kind |-> "none", awaiting |-> "none", roomBefore |-> NullRoom,
           hostChainId |-> 0, cause |-> <<>>, result |-> Pending]

----------------------------------------------------------------------------
(* DynamicSigner: values *)

\* the slots of the calls on the signer that can be in flight at once
Sigs == {1, 2}

\* cachedAddress: string | null; a cached address is never the empty string,
\* so <<>> stands for null
NoAddress == <<>>

\* the owners passed to containsKey/sign, and the byte arrays passed to sign
Owners == WalletAddresses
ByteArrays == { <<>>, <<10>>, <<1, 255>> }

\* b.toString(16).padStart(2, '0') as character codes: "0".."9", "a".."f"
HexDigit(d) == IF d < 10 THEN 48 + d ELSE 87 + d
ByteToHex(b) == <<HexDigit(b \div 16), HexDigit(b % 16)>>

\* uint8ArrayToHex(bytes): the bytes' hex digits joined
RECURSIVE Uint8ArrayToHex(_)
Uint8ArrayToHex(bytes) ==
  IF bytes = <<>> THEN <<>> ELSE ByteToHex(Head(bytes)) \o Uint8ArrayToHex(Tail(bytes))

\* `0x${uint8ArrayToHex(value)}`
MessageHex(value) == <<48, 120>> \o Uint8ArrayToHex(value)

\* What primaryWallet.signMessage resolves with: <<>> for undefined, <<s>> for
\* the string s (strings are sequences of character codes, '' is <<>>).  A
\* wallet that signs yields "s" followed by the message.
Undefined == <<>>
WalletSignature(message) == <<115>> \o message
WalletAnswers(message) == { Undefined, << <<>> >>, <<WalletSignature(message)>> }

\* the wallet handed to the signer (WalletConnect.tsx): `return signature || ''`
AdapterSignMessage(answer) ==
  IF answer = Undefined \/ answer[1] = <<>> THEN <<>> ELSE answer[1]

\* the errors of the signer
NoAddressError == <<"Dynamic wallet has no address">>
OwnerMismatchError(owner, myAddress) == <<"Owner does not match wallet address", owner, myAddress>>
SignFailedError(message) == <<"Failed to sign with Dynamic wallet: ", message>>

\* One call on the signer.  asked counts the wallet.signMessage calls it made;
\* cachedBefore and walletThen are cachedAddress and wallet.address when the
\* call was made; address is what its `this.address()` returned.
IdleSig == [pc |-> "idle", kind |-> "none", owner |-> NoAddress, value |-> <<>>,
            message |-> <<>>, asked |-> 0, cachedBefore |-> NoAddress,
            walletThen |-> NoAddress,
            settled |-> "pending", address |-> NoAddress, has |-> FALSE,
            signature |-> <<>>, error |-> <<>>]

----------------------------------------------------------------------------
(* ensureWasmInitialized: values *)

\* the slots of the ensureWasmInitialized calls, and the initWasm runs
WasmCallers == {1, 2, 3}
Inits == 1..MaxInits

\* One call of ensureWasmInitialized.  how is "ready" (returned at once),
\* "joined" (returned the promise of a running initWasm) or "started"; on is
\* the initWasm run whose promise the call awaits or returned.
IdleWasmCall == [pc |-> "idle", how |-> "none", on |-> 0, settled |-> "pending",
                 error |-> ""]

----------------------------------------------------------------------------
(* joinRoom and the recent-room list: values *)

\* the slots of the joinRoom calls that can be in flight at once
Joins == {1, 2}

\* host chain ids are strings; the i-th one is the single letter "a", "b", ...
HostChain(i) == 96 + i

\* `if (recent.length > 10) recent.pop()`
RecentLimit == 10

\* JSON.stringify of an array of strings, as character codes:
\* <<97, 98>> becomes ["a","b"]
RECURSIVE JsonItems(_)
JsonItems(list) ==
  IF list = <<>> THEN <<>>
  ELSE <<34, Head(list), 34>> \o
       (IF Tail(list) = <<>> THEN <<>> ELSE <<44>> \o JsonItems(Tail(list)))
JsonStringifyArray(list) == <<91>> \o JsonItems(list) \o <<93>>

\* JSON.parse of such a text
RECURSIVE JsonParseItems(_)
JsonParseItems(text) ==
  IF Len(text) < 3 THEN <<>>
  ELSE <<text[2]>> \o JsonParseItems(SubSeq(text, 5, Len(text)))
JsonParseArray(text) == JsonParseItems(SubSeq(text, 2, Len(text) - 1))

\* `localStorage.getItem('chaincycles_recent_rooms') || '[]'`, parsed
RecentRooms(store) ==
  JsonParseArray(IF store[K_RECENT_ROOMS] = Absent THEN <<91, 93>>
                 ELSE store[K_RECENT_ROOMS][1])

\* recent.includes(hostChainId)
IncludesNever(list, h) == FALSE
Includes(list, h) == \E i \in 1..Len(list) : list[i] = h

\* recent.unshift(hostChainId); if (recent.length > 10) recent.pop()
Unshift(list, h) ==
  LET longer == <<h>> \o list IN
  IF Len(longer) > RecentLimit THEN SubSeq(longer, 1, Len(longer) - 1) ELSE longer

\* lines 358-363: the list is read, changed and written back
Remember(store, h) ==
  LET recent == RecentRooms(store) IN
  IF Includes(recent, h) THEN store
  ELSE [store EXCEPT ![K_RECENT_ROOMS] = Stored(JsonStringifyArray(Unshift(recent, h)))]

IdleJoin == [pc |-> "idle", hostChainId |-> 0, settled |-> "pending", error |-> ""]

----------------------------------------------------------------------------
Init ==
  /\ connection = Null
  /\ appConnection = Null
  /\ connectPromise = 0
  /\ lineraClientModule = FALSE
  \* no session was persisted; a mnemonic of the old key scheme is still stored
  /\ localStorage = [k \in StorageKeys |-> IF IsMnemonicKey(k) THEN Stored(0) ELSE Absent]
  /\ call = [c \in Callers |-> IdleCall]
  /\ attempts = 0
  /\ claimCalls = 0
  /\ cohort = {}
  /\ cohortOpen = FALSE
  /\ cohortClaims = 0
  /\ cohortStarted = FALSE
  /\ ended = {}
  /\ req = [r \in Reqs |-> IdleReq]
  /\ issued = 0
  /\ poll = [p \in Pollers |-> IdlePoll]
  /\ gameStore = [room |-> NullRoom, isLoading |-> FALSE, error |-> NoError, pollCanceller |-> 0]
  /\ thens = <<>>
  /\ op = [o \in Ops |-> IdleOp]
  /\ opsIssued = 0
  \* a signer was made for the wallet of account "A"; address() was not called yet
  /\ signer = [address |-> <<65>>, cachedAddress |-> NoAddress, calls |-> 0]
  /\ sig = [s \in Sigs |-> IdleSig]
  /\ wasm = [wasmInitialized |-> FALSE, wasmInitPromise |-> 0,
             runs |-> [n \in Inits |-> "none"], starts |-> 0]
  /\ wcall = [w \in WasmCallers |-> IdleWasmCall]
  /\ join = [calls |-> [j \in Joins |-> IdleJoin], issued |-> 0]
  /\ lineraStore = InitialLineraStore
  /\ overtaken = {}

----------------------------------------------------------------------------
(* connect(dynamicWallet) *)

Connect(c, walletAddress) ==
  /\ call[c].pc \in {"idle", "done"}
  /\ LET userAddress == ToLowerCase(walletAddress) IN
     IF AlreadyConnected(connection, walletAddress)
     THEN \* already connected with the same address: return getState()
          /\ call' = [call EXCEPT ![c] = [IdleCall EXCEPT !.pc = "done", !.kind = "wallet",
                                           !.how = "noop",
                                           !.result = Resolved(GetState(connection))]]
          /\ CohortIssue(c, FALSE)
          /\ UNCHANGED <<adapterVars, attempts, claimCalls, outsideAdapter>>
     ELSE IF ConnectionInProgress(connectPromise)
     THEN \* connection in progress: await this.connectPromise
          /\ call' = [call EXCEPT ![c] = [IdleCall EXCEPT !.pc = "waiting", !.kind = "wallet",
                                           !.how = "joined", !.waitOn = connectPromise]]
          /\ CohortIssue(c, FALSE)
          /\ UNCHANGED <<adapterVars, attempts, claimCalls, outsideAdapter>>
     ELSE \* this.connectPromise = this.performConnect(...), which runs up to
          \* `await getLineraClient()`
          /\ attempts < MaxAttempts
          /\ attempts' = attempts + 1
          /\ connectPromise' = c
          /\ call' = [call EXCEPT ![c] = [IdleCall EXCEPT !.pc = "load", !.kind = "wallet",
                                           !.how = "started",
                                           !.userAddress = userAddress, !.n = attempts + 1]]
          /\ CohortIssue(c, TRUE)
          /\ UNCHANGED <<connection, appConnection, lineraClientModule, localStorage,
                         claimCalls, outsideAdapter>>

(* connectWithPrivateKey() *)
ConnectWithPrivateKey(c) ==
  /\ call[c].pc \in {"idle", "done"}
  /\ IF connection # Null
     THEN /\ call' = [call EXCEPT ![c] = [IdleCall EXCEPT !.pc = "done", !.kind = "key",
                                           !.how = "noop",
                                           !.result = Resolved(GetState(connection))]]
          /\ CohortIssue(c, FALSE)
          /\ UNCHANGED <<adapterVars, attempts, claimCalls, outsideAdapter>>
     ELSE IF ConnectionInProgress(connectPromise)
     THEN /\ call' = [call EXCEPT ![c] = [IdleCall EXCEPT !.pc = "waiting", !.kind = "key",
                                           !.how = "joined", !.waitOn = connectPromise]]
          /\ CohortIssue(c, FALSE)
          /\ UNCHANGED <<adapterVars, attempts, claimCalls, outsideAdapter>>
     ELSE \* this.connectPromise = this.performConnectWithPrivateKey(...), which
          \* runs up to `await ensureWasmInitialized()`
          /\ attempts < MaxAttempts
          /\ attempts' = attempts + 1
          /\ connectPromise' = c
          /\ call' = [call EXCEPT ![c] = [IdleCall EXCEPT !.pc = "wasm", !.kind = "key",
                                           !.how = "started", !.n = attempts + 1]]
          /\ CohortIssue(c, TRUE)
          /\ UNCHANGED <<connection, appConnection, lineraClientModule, localStorage,
                         claimCalls, outsideAdapter>>

----------------------------------------------------------------------------
(* performConnect / performConnectWithPrivateKey *)

\* faucet.claimChain returns a new chain for every claim; the chain claimed
\* by the n-th connect body is chain n
ClaimedChain(n) == n

\* the suspension point that follows `step` once its await returned
NextSteps(kind, step) ==
  CASE step = "wasm" -> {"load"}
    [] step = "load" -> {"wallet"}
    [] step = "wallet" -> {"claim"}
    [] step = "claim" -> IF kind = "wallet" THEN {"owner"} ELSE {"chain"}
    [] step = "owner" -> {"client", "chain"}   \* `if (client instanceof Promise)`
    [] step = "client" -> {"chain"}
    [] OTHER -> {}

\* the await of caller c's connect body returns normally (every step but the last)
BodyAdvance(c) ==
  /\ call[c].pc \in BodySteps \ {"chain"}
  /\ \E next \in NextSteps(call[c].kind, call[c].pc) :
       LET me == call[c] IN
       /\ call' = [call EXCEPT ![c] =
            CASE me.pc = "wallet" ->
                   \* createRandom(), address(), then faucet.claimChain(wallet, address)
                   [me EXCEPT !.pc = next, !.autoSigner = KeyAddress(me.n),
                              !.userAddress = IF me.kind = "key" THEN KeyAddress(me.n)
                                              ELSE me.userAddress]
              [] me.pc = "claim" ->
                   \* wallet.setOwner(chainId, ...) / new Client(wallet, signer)
                   [me EXCEPT !.pc = next, !.chainId = ClaimedChain(me.n),
                              !.client = IF me.kind = "key" THEN me.n ELSE 0]
              [] me.pc = "owner" ->
                   \* setOwner returned; new Client(wallet, signer)
                   [me EXCEPT !.pc = next, !.registeredOwner = me.autoSigner,
                              !.client = me.n]
              [] OTHER -> [me EXCEPT !.pc = next]]
       /\ lineraClientModule' = (lineraClientModule \/ me.pc = "load")
       /\ claimCalls' = IF me.pc = "wallet" THEN claimCalls + 1 ELSE claimCalls
       /\ cohortClaims' = IF me.pc = "wallet" /\ cohortOpen THEN cohortClaims + 1
                          ELSE cohortClaims
  /\ UNCHANGED <<connection, appConnection, connectPromise, localStorage, attempts,
                 cohort, cohortOpen, cohortStarted, outsideConnect>>

\* the callers whose connect() awaits the promise of caller c's body
Waiters(c) == { w \in Callers : call[w].pc = "waiting" /\ call[w].waitOn = c }

\* connectPromise settles: the starter's `await` returns or throws and its
\* `finally` runs, and every waiter's `await this.connectPromise` does the same
Settle(c, ok, e) ==
  /\ connectPromise' = FinallyConnectPromise(connectPromise, ok)
  /\ call' = [x \in Callers |->
                IF x = c \/ x \in Waiters(c)
                THEN [IdleCall EXCEPT !.pc = "done", !.kind = call[x].kind,
                                      !.how = call[x].how,
                                      !.result = IF ok THEN Resolved(GetState(connection'))
                                                 ELSE Rejected(e)]
                ELSE call[x]]
  /\ CohortSettle({c} \cup Waiters(c))

\* localStorage.setItem calls of lines 256-258 / 329-330
Persist(store, kind, chainId, userAddress, autoSignerAddress) ==
  [k \in StorageKeys |->
     IF k = K_CHAIN_ID THEN Stored(chainId)
     ELSE IF k = K_USER_ADDRESS THEN Stored(userAddress)
     ELSE IF k = K_AUTO_SIGNER /\ kind = "wallet" THEN Stored(autoSignerAddress)
     ELSE store[k]]

\* `await client.chain(chainId)` returns: the session is stored and persisted
BodySucceed(c) ==
  /\ call[c].pc = "chain"
  /\ LET me == call[c] IN
     /\ connection' = [client |-> me.client, wallet |-> me.n, chainId |-> me.chainId,
                       address |-> me.userAddress, autoSignerAddress |-> me.autoSigner]
     /\ localStorage' = Persist(localStorage, me.kind, me.chainId, me.userAddress,
                                me.autoSigner)
  /\ Settle(c, TRUE, "")
  /\ UNCHANGED <<appConnection, lineraClientModule, attempts, claimCalls, outsideConnect>>

\* the catch blocks of the connect bodies: `throw error`, the error that the
\* step threw
CatchRethrows(step, e) == e

\* an await of caller c's connect body throws e: the catch block runs
BodyFail(c, e) ==
  /\ call[c].pc \in BodySteps
  /\ call[c].pc = "load" => ~lineraClientModule   \* a cached module is returned as is
  /\ connection' = CatchConnection(connection)
  /\ Settle(c, FALSE, CatchRethrows(call[c].pc, e))
  /\ UNCHANGED <<appConnection, lineraClientModule, localStorage, attempts, claimCalls,
                 outsideConnect>>

----------------------------------------------------------------------------
(* disconnect() *)

\* the keys disconnect() removes
RemovedByDisconnect(k) == k \in {K_CHAIN_ID, K_USER_ADDRESS} \/ IsMnemonicKey(k)

Disconnect ==
  /\ connection' = Null
  /\ appConnection' = Null
  /\ localStorage' = [k \in StorageKeys |->
                        IF RemovedByDisconnect(k) THEN Absent ELSE localStorage[k]]
  /\ ended' = IF connection = Null THEN ended ELSE ended \cup {connection.client}
  \* the connect calls in flight go on: connectPromise and their bodies are
  \* not touched
  /\ UNCHANGED <<connectPromise, lineraClientModule, connectVars, cohortVars,
                 gatewayVars, poll, storeVars, signer, sig, wasm, wcall, join>>

----------------------------------------------------------------------------
(* useLineraStore: connectWithWallet, connectWithPrivateKey, disconnect *)

\* `set({ isConnecting: true, error: null })`
Connecting(st, c) == [st EXCEPT !.isConnecting = TRUE, !.error = <<>>, !.acts[c] = "connect"]

\* connectWithWallet(wallet) up to the first suspension of
\* lineraAdapter.connect(wallet); `if (get().isConnecting) return` leaves
\* the store as it is
StoreConnectWithWallet(c, walletAddress) ==
  /\ ~lineraStore.isConnecting
  /\ lineraStore.acts[c] = "idle"
  /\ lineraStore' = Connecting(lineraStore, c)
  /\ Connect(c, walletAddress)
  /\ UNCHANGED overtaken

StoreConnectWithPrivateKey(c) ==
  /\ ~lineraStore.isConnecting
  /\ lineraStore.acts[c] = "idle"
  /\ lineraStore' = Connecting(lineraStore, c)
  /\ ConnectWithPrivateKey(c)
  /\ UNCHANGED overtaken

\* the adapter call that a connect action awaits has settled
StoreConnectSettled(c) == lineraStore.acts[c] = "connect" /\ call[c].pc = "done"

\* the continuation of `await lineraAdapter.connect(...)`: the try block goes
\* on to getCurrentPlayerProfile(), or the catch block runs and rethrows
StoreConnectReturn(c) ==
  /\ StoreConnectSettled(c)
  /\ LET result == call[c].result IN
     lineraStore' =
       IF result.ok
       THEN [lineraStore EXCEPT !.isConnecting = FALSE, !.isConnected = TRUE,
                                !.chainId = result.state.chainId,
                                !.userAddress = result.state.userAddress,
                                !.autoSignerAddress = result.state.autoSignerAddress,
                                !.acts[c] = "profile"]
       ELSE [lineraStore EXCEPT !.isConnecting = FALSE, !.error = <<result.error>>,
                                !.acts[c] = "idle"]
  /\ UNCHANGED <<adapterVars, connectVars, cohortVars, outsideAdapter, overtaken>>

\* getCurrentPlayerProfile() returned: a missing profile leads to
\* registerPlayer(), a profile is stored by `set({ profile })`
ProfileReturn(c, profile) ==
  /\ lineraStore.acts[c] \in {"profile", "reload"}
  /\ lineraStore' =
       IF lineraStore.acts[c] = "profile" /\ profile = NoProfile
       THEN [lineraStore EXCEPT !.acts[c] = "register"]
       ELSE [lineraStore EXCEPT !.profile = profile, !.acts[c] = "idle"]
  /\ UNCHANGED <<adapterVars, connectVars, cohortVars, outsideAdapter, overtaken>>

\* registerPlayer() returned: getCurrentPlayerProfile() is called again
RegisterReturn(c) ==
  /\ lineraStore.acts[c] = "register"
  /\ lineraStore' = [lineraStore EXCEPT !.acts[c] = "reload"]
  /\ UNCHANGED <<adapterVars, connectVars, cohortVars, outsideAdapter, overtaken>>

\* a profile or registration call threw: `catch (regErr) { console.warn }`
ProfileFail(c) ==
  /\ lineraStore.acts[c] \in {"profile", "register", "reload"}
  /\ lineraStore' = [lineraStore EXCEPT !.acts[c] = "idle"]
  /\ UNCHANGED <<adapterVars, connectVars, cohortVars, outsideAdapter, overtaken>>

\* disconnect(): lineraAdapter.disconnect(), then the store is reset;
\* isConnecting is not
StoreDisconnect ==
  /\ Disconnect
  /\ lineraStore' = [lineraStore EXCEPT !.isConnected = FALSE, !.chainId = NoChain,
                                        !.userAddress = NullAddr,
                                        !.autoSignerAddress = NullAddr,
                                        !.profile = NoProfile, !.error = <<>>]
  /\ UNCHANGED overtaken

----------------------------------------------------------------------------
(* connectApplication / query / mutate / queryWithSync *)

\* `if (parsed.errors)`: an array is truthy, also the empty one
HasErrors(parsed) == parsed.errors # NoErrors

\* `parsed.errors[0]?.message || fallback`
ErrorMessageFallback(parsed, fallback) == fallback
ErrorMessage(parsed, fallback) ==
  LET arr == parsed.errors[1] IN
  IF Len(arr) > 0 /\ arr[1] # "" THEN arr[1] ELSE fallback

\* mutate(): line 501, the response is rejected before the confirmation loop
MutationAccepted(parsed) == FALSE
MutationRejected(parsed) == HasErrors(parsed)

\* `this.appConnection!.application.query(payload)`: the call goes out on the
\* cached binding; stale = a session exists and the binding was resolved from
\* the client of a session that disconnect() ended
Send(me) ==
  [me EXCEPT !.pc = "sent", !.via = appConnection'.application,
             !.stale = (connection # Null /\ appConnection'.application.client \in ended)]

\* connectApplication(id) from its cache check on (a session exists)
BindOrSendAnyId(me, id) ==
  IF appConnection # Null
  THEN IF me.kind = "connectApplication"
       THEN [me EXCEPT !.pc = "done", !.via = appConnection.application,
                       !.result = ReturnValue(id)]
       ELSE Send(me)
  ELSE IF id = ""
  THEN [me EXCEPT !.pc = "done", !.result = Throw("Application ID is not configured")]
  ELSE [me EXCEPT !.pc = "app_chain", !.appId = id, !.client = connection.client,
                  !.chainId = connection.chainId]
BindOrSend(me, id) ==
  IF appConnection # Null /\ appConnection.applicationId = id
  THEN IF me.kind = "connectApplication"
       THEN [me EXCEPT !.pc = "done", !.via = appConnection.application,
                       !.result = ReturnValue(id)]
       ELSE Send(me)
  ELSE IF id = ""
  THEN [me EXCEPT !.pc = "done", !.result = Throw("Application ID is not configured")]
  ELSE \* this.connection.client.chain(this.connection.chainId) is called
       [me EXCEPT !.pc = "app_chain", !.appId = id, !.client = connection.client,
                  !.chainId = connection.chainId]

\* query()/mutate() from their first line on
StartCallBindingFirst(me, notConnected) ==
  IF appConnection = Null
  THEN [me EXCEPT !.pc = "app_chain", !.appId = APPLICATION_ID,
                  !.before = <<connection, appConnection>>]
  ELSE IF connection = Null
  THEN [me EXCEPT !.pc = "done", !.result = Throw(notConnected),
                  !.before = <<connection, appConnection>>]
  ELSE Send([me EXCEPT !.before = <<connection, appConnection>>])
StartCall(me, notConnected) ==
  LET entered == [me EXCEPT !.before = <<connection, appConnection>>] IN
  IF connection = Null
  THEN [entered EXCEPT !.pc = "done", !.result = Throw(notConnected)]
  ELSE IF appConnection = Null
  THEN BindOrSend(entered, APPLICATION_ID)      \* await this.connectApplication()
  ELSE Send(entered)

NotConnectedMessage(kind) ==
  CASE kind = "mutate" -> "Must connect wallet before mutating"
    [] kind = "connectApplication" -> "Must connect wallet before connecting to application"
    [] OTHER -> "Must connect wallet before querying"

Issue(r, kind) ==
  /\ req[r].pc \in {"idle", "done"}
  /\ issued < MaxRequests
  /\ issued' = issued + 1

Query(r) ==
  /\ Issue(r, "query")
  /\ appConnection' = appConnection
  /\ req' = [req EXCEPT ![r] = StartCall([IdleReq EXCEPT !.kind = "query"],
                                         NotConnectedMessage("query"))]
  /\ UNCHANGED <<connection, connectPromise, lineraClientModule, localStorage,
                 connectVars, cohortVars, ended, poll, storeVars, libVars>>

MutateQueued(r) ==
  /\ Issue(r, "mutate")
  /\ appConnection' = appConnection
  /\ req' = [req EXCEPT ![r] =
       IF \E o \in Reqs \ {r} : req[o].kind = "mutate" /\ req[o].pc \notin {"idle", "done"}
       THEN [IdleReq EXCEPT !.pc = "queued", !.kind = "mutate"]
       ELSE StartCall([IdleReq EXCEPT !.kind = "mutate"], NotConnectedMessage("mutate"))]
  /\ UNCHANGED <<connection, connectPromise, lineraClientModule, localStorage,
                 connectVars, cohortVars, ended, poll, storeVars, libVars>>
Mutate(r) ==
  /\ Issue(r, "mutate")
  /\ appConnection' = appConnection
  /\ req' = [req EXCEPT ![r] = StartCall([IdleReq EXCEPT !.kind = "mutate"],
                                         NotConnectedMessage("mutate"))]
  /\ UNCHANGED <<connection, connectPromise, lineraClientModule, localStorage,
                 connectVars, cohortVars, ended, poll, storeVars, libVars>>

QueryWithSync(r) ==
  /\ Issue(r, "queryWithSync")
  /\ req' = [req EXCEPT ![r] =
       IF connection = Null
       THEN [IdleReq EXCEPT !.pc = "done", !.kind = "queryWithSync",
                            !.result = Throw(NotConnectedMessage("queryWithSync"))]
       ELSE \* this.connection.client.chain(this.connection.chainId) is called
            [IdleReq EXCEPT !.pc = "sync", !.kind = "queryWithSync"]]
  /\ UNCHANGED <<adapterVars, connectVars, cohortVars, ended, poll, storeVars, libVars>>

\* queryWithSync: the chain sync returned or threw (the catch only logs);
\* `return this.query(...)` runs
SyncDone(r) ==
  /\ req[r].pc = "sync"
  /\ appConnection' = appConnection
  /\ req' = [req EXCEPT ![r] = StartCall(req[r], NotConnectedMessage("queryWithSync"))]
  /\ UNCHANGED <<connection, connectPromise, lineraClientModule, localStorage,
                 connectVars, cohortVars, ended, issued, poll, storeVars, libVars>>

ConnectApplication(r, id) ==
  /\ Issue(r, "connectApplication")
  /\ appConnection' = appConnection
  /\ req' = [req EXCEPT ![r] =
       IF connection = Null
       THEN [IdleReq EXCEPT !.pc = "done", !.kind = "connectApplication",
                            !.result = Throw(NotConnectedMessage("connectApplication"))]
       ELSE BindOrSend([IdleReq EXCEPT !.kind = "connectApplication"], id)]
  /\ UNCHANGED <<connection, connectPromise, lineraClientModule, localStorage,
                 connectVars, cohortVars, ended, poll, storeVars, libVars>>

\* connectApplication: `await client.chain(chainId)` returned;
\* chain.application(applicationId) is called
AppChainReturn(r) ==
  /\ req[r].pc = "app_chain"
  /\ req' = [req EXCEPT ![r].pc = "app_resolve"]
  /\ UNCHANGED <<adapterVars, connectVars, cohortVars, ended, issued, poll, storeVars, libVars>>

\* connectApplication: `await chain.application(applicationId)` returned; the
\* binding is cached, and a query/mutate that awaited it sends its payload
AppResolveReturn(r) ==
  /\ req[r].pc = "app_resolve"
  /\ LET me == req[r] IN
     /\ appConnection' = [application |-> Handle(me.client, me.chainId, me.appId),
                          applicationId |-> me.appId]
     /\ req' = [req EXCEPT ![r] =
          IF me.kind = "connectApplication"
          THEN [me EXCEPT !.pc = "done", !.via = appConnection'.application,
                          !.result = ReturnValue(me.appId)]
          ELSE Send(me)]
  /\ UNCHANGED <<connection, connectPromise, lineraClientModule, localStorage,
                 connectVars, cohortVars, ended, issued, poll, storeVars, libVars>>

\* a remote call of connectApplication, or application.query itself, throws e
RemoteFail(r, e) ==
  /\ req[r].pc \in {"app_chain", "app_resolve", "sent"}
  /\ req' = [req EXCEPT ![r].pc = "done", ![r].result = Throw(e)]
  /\ UNCHANGED <<adapterVars, connectVars, cohortVars, ended, issued, poll, storeVars, libVars>>

\* mutate(): one confirmation attempt ended (normally or in the catch)
EndAttempt(me) ==
  \* i + 1 = me.sleeps: every iteration starts with the timer
  IF me.sleeps < SyncAttempts
  THEN [me EXCEPT !.pc = "sleep", !.sleeps = me.sleeps + 1]
  ELSE [me EXCEPT !.pc = "done", !.result = ReturnValue(me.parsed.data)]

\* mutate(): `catch (syncError) { console.warn(...) }`, the attempt ends
AttemptThrows(me) == [me EXCEPT !.pc = "done", !.result = Throw("sync failed")]
CatchSyncError(me) == EndAttempt([me EXCEPT !.swallowed = TRUE])

\* `await application.query(payload)` returned the envelope `parsed`
Respond(r, parsed) ==
  /\ req[r].pc = "sent"
  /\ LET me == [req[r] EXCEPT !.parsed = parsed] IN
     req' = [req EXCEPT ![r] =
       IF me.kind = "mutate"
       THEN IF MutationRejected(parsed)
            THEN [me EXCEPT !.pc = "done",
                            !.result = Throw(ErrorMessage(parsed, "Mutation failed"))]
            ELSE \* first iteration: setTimeout(resolve, 1000)
                 [me EXCEPT !.pc = "sleep", !.sleeps = 1]
       ELSE IF HasErrors(parsed)
            THEN [me EXCEPT !.pc = "done",
                            !.result = Throw(ErrorMessage(parsed, "Query failed"))]
            ELSE [me EXCEPT !.pc = "done", !.result = ReturnValue(parsed.data)]]
  /\ UNCHANGED <<adapterVars, connectVars, cohortVars, ended, issued, poll, storeVars, libVars>>

\* mutate(): the 1000 ms timer fired; this.connection.client.chain(...) is
\* called, which throws at once when the session is null
TimerFires(r) ==
  /\ req[r].pc = "sleep"
  /\ req' = [req EXCEPT ![r] =
       IF connection = Null
       THEN CatchSyncError(req[r])
       ELSE [req[r] EXCEPT !.pc = "chain", !.syncs = req[r].syncs + 1]]
  /\ UNCHANGED <<adapterVars, connectVars, cohortVars, ended, issued, poll, storeVars, libVars>>

\* mutate(): `await client.chain(chainId)` returned; chain.processInbox() is
\* called when the chain object has it
ChainReturn(r) ==
  /\ req[r].pc = "chain"
  /\ \/ req' = [req EXCEPT ![r].pc = "inbox"]
     \/ req' = [req EXCEPT ![r] = EndAttempt(req[r])]
  /\ UNCHANGED <<adapterVars, connectVars, cohortVars, ended, issued, poll, storeVars, libVars>>

\* mutate(): `await chain.processInbox()` returned
InboxReturn(r) ==
  /\ req[r].pc = "inbox"
  /\ req' = [req EXCEPT ![r] = EndAttempt(req[r])]
  /\ UNCHANGED <<adapterVars, connectVars, cohortVars, ended, issued, poll, storeVars, libVars>>

\* mutate(): the chain sync or processInbox threw; the catch logs a warning
AttemptFail(r) ==
  /\ req[r].pc \in {"chain", "inbox"}
  /\ req' = [req EXCEPT ![r] = CatchSyncError(req[r])]
  /\ UNCHANGED <<adapterVars, connectVars, cohortVars, ended, issued, poll, storeVars, libVars>>

----------------------------------------------------------------------------
(* pollRoomUpdates(callback, interval, maxInterval, maxPolls) *)

\* `if (roomStr !== lastRoom)`
ChangedAlways(roomStr, lastRoom) == TRUE
Changed(roomStr, lastRoom) == Str(roomStr) # lastRoom

\* poll() from its first line: returns at once when cancelled, stops after
\* maxPolls fetches, otherwise calls getRoomSynced()
PollBodyUnbounded(me) ==
  IF ~me.running THEN [me EXCEPT !.pc = "stopped"]
  ELSE [me EXCEPT !.pc = "fetch", !.pollCount = me.pollCount + 1,
                  !.inflight = me.inflight + 1, !.fetches = me.fetches + 1]
PollBodyTimerFirst(me) ==
  IF ~me.running THEN [me EXCEPT !.pc = "stopped"]
  ELSE IF me.pollCount + 1 > MaxPolls
  THEN [me EXCEPT !.pc = "stopped", !.pollCount = me.pollCount + 1, !.running = FALSE]
  ELSE [me EXCEPT !.pc = "fetch", !.pollCount = me.pollCount + 1,
                  !.inflight = me.inflight + 1, !.fetches = me.fetches + 1,
                  !.timers = me.timers + 1, !.delay = me.currentInterval]
PollBody(me) ==
  IF ~me.running THEN [me EXCEPT !.pc = "stopped"]
  ELSE IF me.pollCount + 1 > MaxPolls
  THEN [me EXCEPT !.pc = "stopped", !.pollCount = me.pollCount + 1, !.running = FALSE]
  ELSE [me EXCEPT !.pc = "fetch", !.pollCount = me.pollCount + 1,
                  !.inflight = me.inflight + 1, !.fetches = me.fetches + 1]

\* `if (running) setTimeout(poll, currentInterval)`
RescheduleAlways(me) ==
  [me EXCEPT !.pc = "timer", !.timers = me.timers + 1, !.delay = me.currentInterval]
Reschedule(me) ==
  IF me.running
  THEN [me EXCEPT !.pc = "timer", !.timers = me.timers + 1, !.delay = me.currentInterval]
  ELSE [me EXCEPT !.pc = "stopped"]

\* the closure state after `let pollCount = 0`, then `poll()` runs up to its
\* first await
Started(callback, interval, maxInterval) ==
  PollBody([IdlePoll EXCEPT !.running = TRUE, !.callback = callback, !.interval = interval,
                            !.maxInterval = maxInterval, !.currentInterval = interval])

\* pollRoomUpdates(callback, interval, maxInterval) is called
PollRoomUpdates(p, interval, maxInterval) ==
  /\ poll[p].pc = "idle"
  /\ poll' = [poll EXCEPT ![p] = Started("record", interval, maxInterval)]
  /\ UNCHANGED <<adapterVars, connectVars, cohortVars, ended, gatewayVars, storeVars, libVars>>

\* `await getRoomSynced()` returned room
FetchReturn(p, room) ==
  /\ poll[p].pc = "fetch"
  /\ LET me == [poll[p] EXCEPT !.fetched = Append(poll[p].fetched, room),
                               !.inflight = poll[p].inflight - 1]
         roomStr == JsonStringify(room) IN
     /\ poll' = [poll EXCEPT ![p] =
       IF Changed(roomStr, me.lastRoom)
       THEN \* callback(room)
            Reschedule([me EXCEPT !.lastRoom = Str(roomStr), !.currentInterval = me.interval,
                                  !.delivered = Append(me.delivered, room)])
       ELSE Reschedule([me EXCEPT !.currentInterval =
                                     Backoff(me.currentInterval, me.maxInterval)])]
     \* the store's callback: set({ room })
     /\ gameStore' = IF Changed(roomStr, me.lastRoom) /\ me.callback = "setRoom"
                 THEN [gameStore EXCEPT !.room = room] ELSE gameStore
  /\ UNCHANGED <<adapterVars, connectVars, cohortVars, ended, libVars, gatewayVars, thens, op,
                 opsIssued>>

\* `await getRoomSynced()` threw: the catch logs the error
FetchFailEndsLoop(p) ==
  /\ poll[p].pc = "fetch"
  /\ poll' = [poll EXCEPT ![p].pc = "stopped", ![p].running = FALSE,
                          ![p].inflight = poll[p].inflight - 1]
  /\ UNCHANGED <<adapterVars, connectVars, cohortVars, ended, gatewayVars, storeVars, libVars>>
FetchFail(p) ==
  /\ poll[p].pc = "fetch"
  /\ poll' = [poll EXCEPT ![p] =
       Reschedule([poll[p] EXCEPT !.inflight = poll[p].inflight - 1])]
  /\ UNCHANGED <<adapterVars, connectVars, cohortVars, ended, gatewayVars, storeVars, libVars>>

\* the timer set by setTimeout(poll, currentInterval) fires
PollTimerFires(p) ==
  /\ poll[p].pc = "timer"
  /\ poll' = [poll EXCEPT ![p] =
       PollBody([poll[p] EXCEPT !.timers = poll[p].timers - 1])]
  /\ UNCHANGED <<adapterVars, connectVars, cohortVars, ended, gatewayVars, storeVars, libVars>>

\* the cancel function: `running = false`
Cancel(me) ==
  [me EXCEPT !.running = FALSE,
             !.cancelledAt = IF me.cancelledAt < 0 THEN Len(me.delivered) ELSE me.cancelledAt]

\* the cancel function returned by pollRoomUpdates is called
CancelPoll(p) ==
  /\ poll[p].pc # "idle"
  /\ poll[p].running
  /\ poll' = [poll EXCEPT ![p] = Cancel(poll[p])]
  /\ UNCHANGED <<adapterVars, connectVars, cohortVars, ended, gatewayVars, storeVars, libVars>>

----------------------------------------------------------------------------
(* useGameStore: startPolling / stopPolling *)

\* stopPolling(): `if (canceller) { canceller(); set({ pollCanceller: null }) }`
StopPollingStore(st) == [st EXCEPT !.pollCanceller = 0]
StopPollingPoll(st, pl) ==
  IF st.pollCanceller # 0
  THEN [pl EXCEPT ![st.pollCanceller] = Cancel(pl[st.pollCanceller])]
  ELSE pl

\* the instance the next pollRoomUpdates call creates
HasFreePoller == \E p \in Pollers : poll[p].pc = "idle"
FreePoller ==
  CHOOSE p \in Pollers : poll[p].pc = "idle" /\ \A q \in Pollers : poll[q].pc = "idle" => p <= q

\* startPolling(): stopPolling(), then pollRoomUpdates((room) => set({ room }))
\* runs up to its first await and returns a resolved promise, whose `.then`
\* job is queued
StartPollingPoll(st, pl) ==
  [StopPollingPoll(st, pl) EXCEPT ![FreePoller] = Started("setRoom", Interval, MaxInterval)]
StartPollingThens == Append(thens, FreePoller)

StartPolling ==
  /\ HasFreePoller
  /\ poll' = StartPollingPoll(gameStore, poll)
  /\ gameStore' = StopPollingStore(gameStore)
  /\ thens' = StartPollingThens
  /\ UNCHANGED <<adapterVars, connectVars, cohortVars, ended, libVars, gatewayVars, op, opsIssued>>

\* stopPolling() with a canceller stored (without one it does nothing)
StopPolling ==
  /\ gameStore.pollCanceller # 0
  /\ poll' = StopPollingPoll(gameStore, poll)
  /\ gameStore' = StopPollingStore(gameStore)
  /\ UNCHANGED <<adapterVars, connectVars, cohortVars, ended, libVars, gatewayVars, thens, op,
                 opsIssued>>

\* the job queued by `.then((canceller) => set({ pollCanceller: canceller }))`
\* runs; jobs run in the order they were queued
ThenJob ==
  /\ thens # <<>>
  /\ gameStore' = [gameStore EXCEPT !.pollCanceller = Head(thens)]
  /\ thens' = Tail(thens)
  /\ UNCHANGED <<adapterVars, connectVars, cohortVars, ended, libVars, gatewayVars, poll, op,
                 opsIssued>>

\* Timers and network responses are tasks: they run only when the job queue
\* is empty.
JobQueueEmpty == thens = <<>>

----------------------------------------------------------------------------
(* useGameStore: createNewRoom / joinExistingRoom / leaveCurrentRoom /
   submitMove / syncRoom *)

IssueOp(o) ==
  /\ op[o].pc \in {"idle", "done"}
  /\ opsIssued < MaxOps
  /\ opsIssued' = opsIssued + 1

Begin(kind, awaiting) ==
  [IdleOp EXCEPT !.pc = "await", !.kind = kind, !.awaiting = awaiting,
                 !.roomBefore = gameStore.room]

\* `set({ isLoading: true, error: null })`
Loading(st) == [st EXCEPT !.isLoading = TRUE, !.error = NoError]

\* the catch blocks: `set({ isLoading: false, error: err.message })`
Failed(st, e) == [st EXCEPT !.isLoading = FALSE, !.error = ErrorText(e)]

CreateNewRoom(o) ==
  /\ IssueOp(o)
  /\ gameStore' = Loading(gameStore)
  /\ op' = [op EXCEPT ![o] = Begin("createNewRoom", "createRoom")]
  /\ UNCHANGED <<adapterVars, connectVars, cohortVars, ended, libVars, gatewayVars, poll, thens>>

JoinExistingRoomPollingFirst(o, hostChainId) ==
  /\ IssueOp(o)
  /\ HasFreePoller
  /\ gameStore' = StopPollingStore(Loading(gameStore))
  /\ poll' = StartPollingPoll(gameStore, poll)
  /\ thens' = StartPollingThens
  /\ op' = [op EXCEPT ![o] = [Begin("joinExistingRoom", "joinRoom")
                               EXCEPT !.hostChainId = hostChainId]]
  /\ UNCHANGED <<adapterVars, connectVars, cohortVars, ended, libVars, gatewayVars>>
JoinExistingRoom(o, hostChainId) ==
  /\ IssueOp(o)
  /\ gameStore' = Loading(gameStore)
  /\ op' = [op EXCEPT ![o] = [Begin("joinExistingRoom", "joinRoom")
                               EXCEPT !.hostChainId = hostChainId]]
  /\ UNCHANGED <<adapterVars, connectVars, cohortVars, ended, libVars, gatewayVars, poll, thens>>

\* stopPolling() runs before leaveRoom() is awaited
LeaveCurrentRoom(o) ==
  /\ IssueOp(o)
  /\ gameStore' = StopPollingStore(Loading(gameStore))
  /\ poll' = StopPollingPoll(gameStore, poll)
  /\ op' = [op EXCEPT ![o] = Begin("leaveCurrentRoom", "leaveRoom")]
  /\ UNCHANGED <<adapterVars, connectVars, cohortVars, ended, libVars, gatewayVars, thens>>

SubmitMove(o) ==
  /\ IssueOp(o)
  /\ gameStore' = Loading(gameStore)
  /\ op' = [op EXCEPT ![o] = Begin("submitMove", "makeMove")]
  /\ UNCHANGED <<adapterVars, connectVars, cohortVars, ended, libVars, gatewayVars, poll, thens>>

SyncRoom(o) ==
  /\ IssueOp(o)
  /\ op' = [op EXCEPT ![o] = Begin("syncRoom", "getRoomSynced")]
  /\ UNCHANGED <<adapterVars, connectVars, cohortVars, ended, libVars, gatewayVars, poll, gameStore,
                 thens>>

\* the read that follows a mutation: createNewRoom has
\* `const room = await getRoom()`, submitMove has `await get().syncRoom()`,
\* which awaits getRoomSynced()
ReadAfterUnsynced(awaiting) == "getRoom"
ReadAfter(awaiting) == IF awaiting = "makeMove" THEN "getRoomSynced" ELSE "getRoom"

Finish(me, result) == [me EXCEPT !.pc = "done", !.awaiting = "none", !.result = result]

\* createRoom(), joinRoom(), leaveRoom() or makeMove() resolved
CallReturn(o) ==
  /\ JobQueueEmpty
  /\ op[o].pc = "await"
  /\ LET me == op[o] IN
     CASE me.awaiting \in {"createRoom", "makeMove"} ->
            /\ op' = [op EXCEPT ![o].awaiting = ReadAfter(me.awaiting)]
            /\ UNCHANGED <<gameStore, poll, thens, localStorage>>
       [] me.awaiting = "joinRoom" ->
            \* joinRoom updates the recent-room list and returns; then
            \* `get().startPolling(); set({ isLoading: false })`
            /\ HasFreePoller
            /\ localStorage' = Remember(localStorage, me.hostChainId)
            /\ poll' = StartPollingPoll(gameStore, poll)
            /\ gameStore' = [StopPollingStore(gameStore) EXCEPT !.isLoading = FALSE]
            /\ thens' = StartPollingThens
            /\ op' = [op EXCEPT ![o] = Finish(me, ReturnValue("undefined"))]
       [] me.awaiting = "leaveRoom" ->
            \* `set({ room: null, isLoading: false })`
            /\ gameStore' = [gameStore EXCEPT !.room = NullRoom, !.isLoading = FALSE]
            /\ op' = [op EXCEPT ![o] = Finish(me, ReturnValue("undefined"))]
            /\ UNCHANGED <<poll, thens, localStorage>>
       [] OTHER -> FALSE
  /\ UNCHANGED <<connection, appConnection, connectPromise, lineraClientModule, connectVars,
                 cohortVars, ended, libVars, gatewayVars, opsIssued>>

\* getRoom() or getRoomSynced() resolved with room
RoomReturn(o, room) ==
  /\ JobQueueEmpty
  /\ op[o].pc = "await"
  /\ op[o].awaiting \in {"getRoom", "getRoomSynced"}
  /\ LET me == op[o] IN
     /\ gameStore' = IF me.kind = "syncRoom"
                 THEN [gameStore EXCEPT !.room = room]
                 ELSE [gameStore EXCEPT !.room = room, !.isLoading = FALSE]
     /\ op' = [op EXCEPT ![o] =
          Finish(me, ReturnValue(IF me.kind = "createNewRoom" THEN "hostChainId"
                                                               ELSE "undefined"))]
  /\ UNCHANGED <<adapterVars, connectVars, cohortVars, ended, libVars, gatewayVars, poll, thens,
                 opsIssued>>

\* the awaited gameApi call rejected with e
CallFail(o, e) ==
  /\ JobQueueEmpty
  /\ op[o].pc = "await"
  /\ LET me == [op[o] EXCEPT !.cause = <<e>>] IN
     IF me.awaiting = "getRoomSynced"
     THEN \* syncRoom: `catch (err) { console.error(...) }`; submitMove goes on
          \* with `set({ isLoading: false })`
          /\ gameStore' = IF me.kind = "submitMove" THEN [gameStore EXCEPT !.isLoading = FALSE]
                                                  ELSE gameStore
          /\ op' = [op EXCEPT ![o] = Finish(me, ReturnValue("undefined"))]
     ELSE IF me.kind = "leaveCurrentRoom"
     THEN \* the catch of leaveCurrentRoom has no `throw err`
          /\ gameStore' = Failed(gameStore, e)
          /\ op' = [op EXCEPT ![o] = Finish(me, ReturnValue("undefined"))]
     ELSE \* `throw err`
          /\ gameStore' = Failed(gameStore, e)
          /\ op' = [op EXCEPT ![o] = Finish(me, Throw(e))]
  /\ UNCHANGED <<adapterVars, connectVars, cohortVars, ended, libVars, gatewayVars, poll, thens,
                 opsIssued>>

----------------------------------------------------------------------------
(* DynamicSigner: address / containsKey / sign *)

\* address(): the string it resolves with, NoAddress when it throws
AddressUncached(sg) == IF sg.address = <<>> THEN NoAddress ELSE ToLowerCase(sg.address)
AddressOf(sg) ==
  IF sg.cachedAddress # NoAddress THEN sg.cachedAddress
  ELSE IF sg.address = <<>> THEN NoAddress
  ELSE ToLowerCase(sg.address)

\* `this.cachedAddress = address.toLowerCase()`, and one more call on the signer
AfterAddress(sg) == [sg EXCEPT !.cachedAddress = AddressOf(sg), !.calls = sg.calls + 1]

\* `owner.toLowerCase() === myAddress`
OwnerMatchesAlways(owner, myAddress) == TRUE
OwnerMatches(owner, myAddress) == ToLowerCase(owner) = myAddress

IssueSig(s) ==
  /\ sig[s].pc \in {"idle", "done"}
  /\ signer.calls < MaxSigns
  /\ signer' = AfterAddress(signer)

\* the call as it is once `this.address()` ran
Entered(kind, owner, value) ==
  LET a == AddressOf(signer)
      me == [IdleSig EXCEPT !.kind = kind, !.owner = owner, !.value = value,
                            !.cachedBefore = signer.cachedAddress,
                            !.walletThen = signer.address, !.address = a]
  IN IF a = NoAddress
     THEN [me EXCEPT !.pc = "done", !.settled = "rejected", !.error = NoAddressError]
     ELSE me

Address(s) ==
  /\ IssueSig(s)
  /\ LET me == Entered("address", NoAddress, <<>>) IN
     sig' = [sig EXCEPT ![s] =
       IF me.pc = "done" THEN me ELSE [me EXCEPT !.pc = "done", !.settled = "fulfilled"]]
  /\ UNCHANGED <<adapterVars, connectVars, cohortVars, ended, gatewayVars, poll, storeVars,
                 wasm, wcall, join,
                 lineraStore, overtaken>>

ContainsKey(s, owner) ==
  /\ IssueSig(s)
  /\ LET me == Entered("containsKey", owner, <<>>) IN
     sig' = [sig EXCEPT ![s] =
       IF me.pc = "done" THEN me
       ELSE [me EXCEPT !.pc = "done", !.settled = "fulfilled",
                       !.has = OwnerMatches(owner, me.address)]]
  /\ UNCHANGED <<adapterVars, connectVars, cohortVars, ended, gatewayVars, poll, storeVars,
                 wasm, wcall, join,
                 lineraStore, overtaken>>

\* sign(owner, value) up to `await this.wallet.signMessage(messageHex)`
Sign(s, owner, value) ==
  /\ IssueSig(s)
  /\ LET me == Entered("sign", owner, value) IN
     sig' = [sig EXCEPT ![s] =
       IF me.pc = "done" THEN me
       ELSE IF ~OwnerMatches(owner, me.address)
       THEN [me EXCEPT !.pc = "done", !.settled = "rejected",
                       !.error = OwnerMismatchError(owner, me.address)]
       ELSE [me EXCEPT !.pc = "signing", !.message = MessageHex(value), !.asked = 1]]
  /\ UNCHANGED <<adapterVars, connectVars, cohortVars, ended, gatewayVars, poll, storeVars,
                 wasm, wcall, join,
                 lineraStore, overtaken>>

\* primaryWallet.signMessage resolved with answer: `return signature`
SignMessageReturn(s, answer) ==
  /\ sig[s].pc = "signing"
  /\ answer \in WalletAnswers(sig[s].message)
  /\ sig' = [sig EXCEPT ![s] = [@ EXCEPT !.pc = "done", !.settled = "fulfilled",
                                         !.signature = AdapterSignMessage(answer)]]
  /\ UNCHANGED <<adapterVars, connectVars, cohortVars, ended, gatewayVars, poll, storeVars,
                 signer, wasm, wcall, join,
                 lineraStore, overtaken>>

\* primaryWallet.signMessage rejected with e: the catch wraps the message
SignMessageReject(s, e) ==
  /\ sig[s].pc = "signing"
  /\ sig' = [sig EXCEPT ![s] = [@ EXCEPT !.pc = "done", !.settled = "rejected",
                                         !.error = SignFailedError(e)]]
  /\ UNCHANGED <<adapterVars, connectVars, cohortVars, ended, gatewayVars, poll, storeVars,
                 signer, wasm, wcall, join,
                 lineraStore, overtaken>>

\* the wallet object reports another address (the user switched accounts)
WalletAddressChanges(a) ==
  /\ a # signer.address
  /\ signer' = [signer EXCEPT !.address = a]
  /\ UNCHANGED <<adapterVars, connectVars, cohortVars, ended, gatewayVars, poll, storeVars,
                 sig, wasm, wcall, join,
                 lineraStore, overtaken>>

----------------------------------------------------------------------------
(* ensureWasmInitialized / initWasm *)

\* `if (wasmInitPromise)`
InitInProgressNever(wm) == FALSE
InitInProgress(wm) == wm.wasmInitPromise # 0

\* ensureWasmInitialized() up to its return or its `await wasmInitPromise`;
\* initWasm() runs up to `await import('@linera/client')`
EnsureWasmInitialized(w) ==
  /\ wcall[w].pc \in {"idle", "done"}
  /\ IF wasm.wasmInitialized
     THEN /\ wcall' = [wcall EXCEPT ![w] = [IdleWasmCall EXCEPT !.pc = "done", !.how = "ready",
                                                              !.settled = "fulfilled"]]
          /\ wasm' = wasm
     ELSE IF InitInProgress(wasm)
     THEN /\ wcall' = [wcall EXCEPT ![w] = [IdleWasmCall EXCEPT !.pc = "joined", !.how = "joined",
                                                              !.on = wasm.wasmInitPromise]]
          /\ wasm' = wasm
     ELSE /\ wasm.starts < MaxInits
          /\ LET n == wasm.starts + 1 IN
             /\ wasm' = [wasm EXCEPT !.wasmInitPromise = n, !.starts = n,
                                     !.runs = [@ EXCEPT ![n] = "import"]]
             /\ wcall' = [wcall EXCEPT ![w] = [IdleWasmCall EXCEPT !.pc = "awaiting",
                                                                 !.how = "started", !.on = n]]
  /\ UNCHANGED <<adapterVars, connectVars, cohortVars, ended, gatewayVars, poll, storeVars,
                 signer, sig, join, lineraStore, overtaken>>

\* initWasm: the import resolved and the module exports `initialize`, which
\* is called
InitImported(n) ==
  /\ wasm.runs[n] = "import"
  /\ wasm' = [wasm EXCEPT !.runs = [@ EXCEPT ![n] = "initialize"]]
  /\ UNCHANGED <<adapterVars, connectVars, cohortVars, ended, gatewayVars, poll, storeVars,
                 signer, sig, wcall, join,
                 lineraStore, overtaken>>

\* the calls whose promise follows run n: the one that started it and awaits
\* it, and the ones that returned it
Followers(n) == { w \in WasmCallers : wcall[w].pc \in {"awaiting", "joined"} /\ wcall[w].on = n }
Starter(n) == { w \in WasmCallers : wcall[w].pc = "awaiting" /\ wcall[w].on = n }

\* initWasm returned (after initialize(), or after the import of a module
\* without it): the promise of run n resolves, `wasmInitialized = true` runs
\* in the call that awaits it, and the calls that returned it resolve
InitResolves(n) ==
  /\ wasm.runs[n] \in {"import", "initialize"}
  /\ wasm' = [wasm EXCEPT !.runs = [@ EXCEPT ![n] = "resolved"],
                          !.wasmInitialized = (@ \/ Starter(n) # {})]
  /\ wcall' = [w \in WasmCallers |->
                 IF w \in Followers(n)
                 THEN [wcall[w] EXCEPT !.pc = "done", !.settled = "fulfilled"]
                 ELSE wcall[w]]
  /\ UNCHANGED <<adapterVars, connectVars, cohortVars, ended, gatewayVars, poll, storeVars,
                 signer, sig, join, lineraStore, overtaken>>

\* the import or initialize() threw e: the promise of run n rejects, the catch
\* runs `wasmInitPromise = null` in the call that awaits it, and every call
\* that follows the run rejects with e
InitRejects(n, e) ==
  /\ wasm.runs[n] \in {"import", "initialize"}
  /\ wasm' = [wasm EXCEPT !.runs = [@ EXCEPT ![n] = "rejected"],
                          !.wasmInitPromise = IF Starter(n) # {} THEN 0 ELSE @]
  /\ wcall' = [w \in WasmCallers |->
                 IF w \in Followers(n)
                 THEN [wcall[w] EXCEPT !.pc = "done", !.settled = "rejected", !.error = e]
                 ELSE wcall[w]]
  /\ UNCHANGED <<adapterVars, connectVars, cohortVars, ended, gatewayVars, poll, storeVars,
                 signer, sig, join, lineraStore, overtaken>>

----------------------------------------------------------------------------
(* joinRoom(hostChainId) *)

\* Chain ids are opaque: a room that is neither listed nor being joined is
\* named by the first unused letter.
UsedHosts ==
  LET recent == RecentRooms(localStorage) IN
  { recent[i] : i \in DOMAIN recent } \cup
  { join.calls[j].hostChainId : j \in { k \in Joins : join.calls[k].pc = "mutate" } }
HostChains == { HostChain(i) : i \in 1..(MaxJoins + 1) }
JoinableHosts ==
  LET used == UsedHosts IN
  { h \in HostChains : h \in used \/ \A g \in HostChains \ used : h <= g }

\* joinRoom(h) up to `await mutate(MUTATIONS.JOIN_ROOM, { hostChainId })`
JoinRoom(j, h) ==
  /\ join.calls[j].pc \in {"idle", "done"}
  /\ join.issued < MaxJoins
  /\ join' = [join EXCEPT !.issued = @ + 1,
                          !.calls = [@ EXCEPT ![j] = [IdleJoin EXCEPT !.pc = "mutate",
                                                                      !.hostChainId = h]]]
  /\ UNCHANGED <<adapterVars, connectVars, cohortVars, ended, gatewayVars, poll, storeVars,
                 signer, sig, wasm, wcall,
                 lineraStore, overtaken>>

\* the mutation resolved: the recent-room list is updated
JoinRoomReturn(j) ==
  /\ join.calls[j].pc = "mutate"
  /\ localStorage' = Remember(localStorage, join.calls[j].hostChainId)
  /\ join' = [join EXCEPT !.calls = [@ EXCEPT ![j] = [IdleJoin EXCEPT !.pc = "done",
                                                                      !.settled = "fulfilled"]]]
  /\ UNCHANGED <<connection, appConnection, connectPromise, lineraClientModule, connectVars,
                 cohortVars, ended, gatewayVars, poll, storeVars, signer, sig, wasm, wcall,
                 lineraStore, overtaken>>

\* the mutation rejected with e: joinRoom rejects with it
JoinRoomFail(j, e) ==
  /\ join.calls[j].pc = "mutate"
  /\ join' = [join EXCEPT !.calls = [@ EXCEPT ![j] = [IdleJoin EXCEPT !.pc = "done",
                                                                      !.settled = "rejected",
                                                                      !.error = e]]]
  /\ UNCHANGED <<adapterVars, connectVars, cohortVars, ended, gatewayVars, poll, storeVars,
                 signer, sig, wasm, wcall,
                 lineraStore, overtaken>>

----------------------------------------------------------------------------
\* the call slot used when calls do not overlap
GatewayReqs == {1}

NextConnect ==
  \/ \E c \in Callers, w \in WalletAddresses : Connect(c, w) /\ UNCHANGED above
  \/ \E c \in Callers : ConnectWithPrivateKey(c) /\ UNCHANGED above
  \/ \E c \in Callers : BodyAdvance(c)
  \/ \E c \in Callers : BodySucceed(c)
  \/ \E c \in Callers, e \in ErrorValues : BodyFail(c, e)
  \/ Disconnect /\ UNCHANGED above

SpecConnect == Init /\ [][NextConnect]_vars

\* the connect calls and disconnect(), with the history of the calls that a
\* disconnect() has overtaken: a call is recorded when disconnect() runs
\* while it is in flight, and forgotten when its slot is used again
ConnectInFlight(c) == call[c].pc \notin {"idle", "done"}
Issuing(c) == overtaken' = overtaken \ {c} /\ UNCHANGED lineraStore
Overtaking == overtaken' = { c \in Callers : ConnectInFlight(c) } /\ UNCHANGED lineraStore

NextDisconnect ==
  \/ \E c \in Callers, w \in WalletAddresses : Connect(c, w) /\ Issuing(c)
  \/ \E c \in Callers : ConnectWithPrivateKey(c) /\ Issuing(c)
  \/ \E c \in Callers : BodyAdvance(c)
  \/ \E c \in Callers : BodySucceed(c)
  \/ \E c \in Callers, e \in ErrorValues : BodyFail(c, e)
  \/ Disconnect /\ Overtaking

SpecDisconnect == Init /\ [][NextDisconnect]_vars

\* the remote-call gateway on top of one connect caller; the adapter's methods
\* are called directly, not through the connection store
GatewayCaller == CHOOSE c \in Callers : \A d \in Callers : c <= d
\* its wallet: "A"
GatewayWallets == { <<65>> }

NextGateway ==
  \/ \E w \in GatewayWallets : Connect(GatewayCaller, w) /\ UNCHANGED above
  \/ ConnectWithPrivateKey(GatewayCaller) /\ UNCHANGED above
  \/ BodyAdvance(GatewayCaller)
  \/ BodySucceed(GatewayCaller)
  \/ \E e \in ErrorValues : BodyFail(GatewayCaller, e)
  \/ Disconnect /\ UNCHANGED above
  \/ \E r \in GatewayReqs : Query(r)
  \/ \E r \in GatewayReqs : Mutate(r)
  \/ \E r \in GatewayReqs : QueryWithSync(r)
  \/ \E r \in GatewayReqs : SyncDone(r)
  \/ \E r \in GatewayReqs, id \in AppIds : ConnectApplication(r, id)
  \/ \E r \in GatewayReqs : AppChainReturn(r)
  \/ \E r \in GatewayReqs : AppResolveReturn(r)
  \/ \E r \in GatewayReqs, e \in ErrorValues : RemoteFail(r, e)
  \/ \E r \in GatewayReqs, parsed \in Envelopes : Respond(r, parsed)
  \/ \E r \in GatewayReqs : TimerFires(r)
  \/ \E r \in GatewayReqs : ChainReturn(r)
  \/ \E r \in GatewayReqs : InboxReturn(r)
  \/ \E r \in GatewayReqs : AttemptFail(r)

SpecGateway == Init /\ [][NextGateway]_vars

\* query() and mutate() calls that overlap in time, on the sessions of one
\* connect caller
NextOverlap ==
  \/ \E w \in GatewayWallets : Connect(GatewayCaller, w) /\ UNCHANGED above
  \/ BodyAdvance(GatewayCaller)
  \/ BodySucceed(GatewayCaller)
  \/ \E e \in ErrorValues : BodyFail(GatewayCaller, e)
  \/ \E r \in Reqs : Query(r)
  \/ \E r \in Reqs : Mutate(r)
  \/ \E r \in Reqs : AppChainReturn(r)
  \/ \E r \in Reqs : AppResolveReturn(r)
  \/ \E r \in Reqs, e \in ErrorValues : RemoteFail(r, e)
  \/ \E r \in Reqs, parsed \in Envelopes : Respond(r, parsed)
  \/ \E r \in Reqs : TimerFires(r)
  \/ \E r \in Reqs : ChainReturn(r)
  \/ \E r \in Reqs : InboxReturn(r)
  \/ \E r \in Reqs : AttemptFail(r)

SpecOverlap == Init /\ [][NextOverlap]_vars

\* one poller instance
LonePoller == {1}

NextPoller ==
  \/ \E p \in LonePoller, interval \in IntervalArgs, maxInterval \in MaxIntervalArgs :
       PollRoomUpdates(p, interval, maxInterval)
  \/ \E p \in LonePoller, room \in Rooms : FetchReturn(p, room)
  \/ \E p \in LonePoller : FetchFail(p)
  \/ \E p \in LonePoller : PollTimerFires(p)
  \/ \E p \in LonePoller : CancelPoll(p)

SpecPoller == Init /\ [][NextPoller]_vars

\* one poller instance whose cancel function is never called; every fetch
\* settles and every timer that was set fires
NextUncancelled ==
  \/ \E p \in LonePoller, interval \in IntervalArgs, maxInterval \in MaxIntervalArgs :
       PollRoomUpdates(p, interval, maxInterval)
  \/ \E p \in LonePoller, room \in Rooms : FetchReturn(p, room)
  \/ \E p \in LonePoller : FetchFail(p)
  \/ \E p \in LonePoller : PollTimerFires(p)

FetchSettles == \E p \in LonePoller : FetchFail(p) \/ \E room \in Rooms : FetchReturn(p, room)
TimerElapses == \E p \in LonePoller : PollTimerFires(p)

SpecUncancelled ==
  Init /\ [][NextUncancelled]_vars /\ WF_vars(FetchSettles) /\ WF_vars(TimerElapses)

\* the game store and the pollers it starts; the snapshots the store's own
\* reads return, and the snapshot the pollers' reads return
StoreRooms == { NullRoom, 65 }
\* the host chain of the room the store joins
StoreHosts == { HostChain(1) }
PolledRooms == { 65 }

\* the operation slot used when store operations do not overlap
LoneOp == {1}

NextStore ==
  \/ StartPolling
  \/ StopPolling
  \/ ThenJob
  \/ \E o \in LoneOp : CreateNewRoom(o)
  \/ \E o \in LoneOp, h \in StoreHosts : JoinExistingRoom(o, h)
  \/ \E o \in LoneOp : LeaveCurrentRoom(o)
  \/ \E o \in LoneOp : SubmitMove(o)
  \/ \E o \in LoneOp : SyncRoom(o)
  \/ \E o \in LoneOp : CallReturn(o)
  \/ \E o \in LoneOp, room \in StoreRooms : RoomReturn(o, room)
  \/ \E o \in LoneOp, e \in ErrorValues : CallFail(o, e)
  \/ \E p \in Pollers, room \in PolledRooms : JobQueueEmpty /\ FetchReturn(p, room)
  \/ \E p \in Pollers : JobQueueEmpty /\ FetchFail(p)
  \/ \E p \in Pollers : JobQueueEmpty /\ PollTimerFires(p)

SpecStore == Init /\ [][NextStore]_vars

\* the store's operations alone: pollers are started by joinExistingRoom and
\* stopped by leaveCurrentRoom only
NextMoves ==
  \/ ThenJob
  \/ \E o \in LoneOp : CreateNewRoom(o)
  \/ \E o \in LoneOp, h \in StoreHosts : JoinExistingRoom(o, h)
  \/ \E o \in LoneOp : LeaveCurrentRoom(o)
  \/ \E o \in LoneOp : SubmitMove(o)
  \/ \E o \in LoneOp : SyncRoom(o)
  \/ \E o \in LoneOp : CallReturn(o)
  \/ \E o \in LoneOp, room \in StoreRooms : RoomReturn(o, room)
  \/ \E o \in LoneOp, e \in ErrorValues : CallFail(o, e)
  \/ \E p \in Pollers, room \in PolledRooms : JobQueueEmpty /\ FetchReturn(p, room)
  \/ \E p \in Pollers : JobQueueEmpty /\ FetchFail(p)
  \/ \E p \in Pollers : JobQueueEmpty /\ PollTimerFires(p)

SpecMoves == Init /\ [][NextMoves]_vars

\* the connection store on top of the adapter.  The continuation of a
\* settled adapter call is a microtask: it runs before any other handler.
StoreJobsEmpty == \A c \in Callers : ~StoreConnectSettled(c)

NextLinera ==
  \/ \E c \in Callers, w \in WalletAddresses : StoreJobsEmpty /\ StoreConnectWithWallet(c, w)
  \/ \E c \in Callers : StoreJobsEmpty /\ StoreConnectWithPrivateKey(c)
  \/ \E c \in Callers : StoreConnectReturn(c)
  \/ \E c \in Callers, profile \in Profiles : StoreJobsEmpty /\ ProfileReturn(c, profile)
  \/ \E c \in Callers : StoreJobsEmpty /\ RegisterReturn(c)
  \/ \E c \in Callers : StoreJobsEmpty /\ ProfileFail(c)
  \/ StoreJobsEmpty /\ StoreDisconnect
  \/ \E c \in Callers : StoreJobsEmpty /\ BodyAdvance(c)
  \/ \E c \in Callers : StoreJobsEmpty /\ BodySucceed(c)
  \/ \E c \in Callers, e \in ErrorValues : StoreJobsEmpty /\ BodyFail(c, e)

SpecLinera == Init /\ [][NextLinera]_vars

\* store operations that overlap in time
NextLoading ==
  \/ ThenJob
  \/ \E o \in Ops : CreateNewRoom(o)
  \/ \E o \in Ops, h \in StoreHosts : JoinExistingRoom(o, h)
  \/ \E o \in Ops : LeaveCurrentRoom(o)
  \/ \E o \in Ops : SubmitMove(o)
  \/ \E o \in Ops : CallReturn(o)
  \/ \E o \in Ops, room \in StoreRooms : RoomReturn(o, room)
  \/ \E o \in Ops, e \in ErrorValues : CallFail(o, e)

SpecLoading == Init /\ [][NextLoading]_vars

\* one DynamicSigner, its wallet, and the calls made on it
SignerWallets == WalletAddresses \cup { <<>> }

NextSigner ==
  \/ \E s \in Sigs : Address(s)
  \/ \E s \in Sigs, owner \in Owners : ContainsKey(s, owner)
  \/ \E s \in Sigs, owner \in Owners, value \in ByteArrays : Sign(s, owner, value)
  \/ \E s \in Sigs : \E answer \in WalletAnswers(sig[s].message) : SignMessageReturn(s, answer)
  \/ \E s \in Sigs, e \in ErrorValues : SignMessageReject(s, e)
  \/ \E a \in SignerWallets : WalletAddressChanges(a)

SpecSigner == Init /\ [][NextSigner]_vars

\* the ensureWasmInitialized calls and the initWasm runs they start
NextWasm ==
  \/ \E w \in WasmCallers : EnsureWasmInitialized(w)
  \/ \E n \in Inits : InitImported(n)
  \/ \E n \in Inits : InitResolves(n)
  \/ \E n \in Inits, e \in ErrorValues : InitRejects(n, e)

SpecWasm == Init /\ [][NextWasm]_vars

\* the joinRoom calls and the recent-room list, from the empty list on
NextRecent ==
  \/ \E h \in JoinableHosts : \E j \in Joins : JoinRoom(j, h)
  \/ \E j \in Joins : JoinRoomReturn(j)
  \/ \E j \in Joins, e \in ErrorValues : JoinRoomFail(j, e)

SpecRecent == Init /\ [][NextRecent]_vars

----------------------------------------------------------------------------
(* Claims *)

SameOutcome(a, b) ==
  /\ a.ok = b.ok
  /\ a.ok => /\ a.state.userAddress = b.state.userAddress
             /\ a.state.chainId = b.state.chainId

\* the calls issued while no session existed have settled
CohortSettled == ~cohortOpen /\ cohort # {}

BodyRunning(c) == c \in Callers /\ call[c].pc \in BodySteps

\* C2: connectPromise is non-null only while a connect body is executing, it
\* is cleared when the body settles (success or failure), so no call awaits
\* a settled attempt: after a rejection the next call starts a new body.
C2_PromiseClearedOnSettle ==
  /\ connectPromise # 0 => BodyRunning(connectPromise)
  /\ (\E c \in Callers : BodyRunning(c)) => connectPromise # 0
  /\ \A c \in Callers : call[c].pc = "waiting" => BodyRunning(call[c].waitOn)

C2_Witness ==
  \E c, d \in Callers :
    /\ call[c].pc = "done" /\ ~call[c].result.ok
    /\ call[d].pc = "claim" /\ call[d].n = 2 /\ connectPromise = d

\* the session is null or has client, chainId and address set
WellFormed(conn) ==
  conn = Null \/ (conn.client # 0 /\ conn.chainId # 0 /\ conn.address # NullAddr)

\* C3: when a step of the connect body fails, the call rejects and the session
\* is null afterwards; the session is never partially populated.
C3_FailureResetsSession ==
  [][ /\ \A c \in Callers, e \in ErrorValues :
           BodyFail(c, e) => /\ connection' = Null
                             /\ call'[c].pc = "done"
                             /\ call'[c].result = Rejected(e)
      /\ WellFormed(connection') ]_vars

\* a failed connect reset the session that an earlier connect had persisted
C3_Witness ==
  /\ connection = Null
  /\ localStorage[K_CHAIN_ID] # Absent
  /\ \E c \in Callers : call[c].pc = "done" /\ ~call[c].result.ok

\* C4: no query or mutate sends on a binding of a session that disconnect()
\* ended once a new session exists.
C4_NoStaleBinding == \A r \in Reqs : ~req[r].stale

SessionKeys == { K_CHAIN_ID, K_USER_ADDRESS, K_AUTO_SIGNER }

\* C5: disconnect() leaves session and binding null and none of the persisted
\* session keys (chain id, user address, auto-signer address) in localStorage.
C5_DisconnectPurges ==
  [][ Disconnect => /\ connection' = Null
                    /\ appConnection' = Null
                    /\ \A k \in SessionKeys : localStorage'[k] = Absent ]_vars

NoOpCall(c) ==
  /\ call'[c].pc = "done"
  /\ call'[c].result = Resolved(GetState(connection))
  /\ UNCHANGED <<connection, appConnection, connectPromise, localStorage, attempts,
                 claimCalls>>

\* C6: connect() with a wallet whose lowercased address is the session's
\* address, and connectWithPrivateKey() with any session, return the current
\* state and change nothing: no wallet creation, no claim, same session,
\* binding, connectPromise and persisted keys.
C6_ConnectedIsNoOp ==
  [][ \A c \in Callers :
        /\ \A w \in WalletAddresses :
             (connection # Null /\ connection.address = ToLowerCase(w) /\ Connect(c, w))
               => NoOpCall(c)
        /\ (connection # Null /\ ConnectWithPrivateKey(c)) => NoOpCall(c) ]_vars

C6_Witness ==
  \E c \in Callers :
    /\ call[c].pc = "done" /\ call[c].how = "noop" /\ call[c].kind = "wallet"
    /\ appConnection # Null
    /\ connection # Null

NonEmptyErrors(parsed) == parsed.errors # NoErrors /\ Len(parsed.errors[1]) > 0

C8_RejectsOnlyOnNonEmptyErrors ==
  \A r \in Reqs :
    (req[r].kind \in {"query", "queryWithSync"} /\ req[r].parsed # NoEnvelope) =>
      /\ req[r].pc = "done"
      /\ req[r].result = IF NonEmptyErrors(req[r].parsed)
                         THEN Throw(req[r].parsed.errors[1][1])
                         ELSE ReturnValue(req[r].parsed.data)

\* C9: after a response without errors, mutate() makes at most 3 confirmation
\* attempts (sleep, then chain sync), swallows every failure of an attempt,
\* and resolves with the response data once the third attempt ended.
C9_BestEffortConfirmation ==
  \A r \in Reqs :
    (req[r].kind = "mutate" /\ req[r].parsed # NoEnvelope
       /\ req[r].parsed.errors = NoErrors) =>
      /\ req[r].sleeps \in 1..3
      /\ req[r].syncs <= req[r].sleeps
      /\ req[r].pc \in {"sleep", "chain", "inbox", "done"}
      /\ req[r].pc = "done" => /\ req[r].result = ReturnValue(req[r].parsed.data)
                               /\ req[r].sleeps = 3

\* a mutate resolved although the session was null at one of its attempts
C9_Witness ==
  \E r \in Reqs :
    /\ req[r].kind = "mutate" /\ req[r].pc = "done"
    /\ req[r].result = ReturnValue("D2")
    /\ req[r].swallowed
    /\ req[r].sleeps = 3 /\ req[r].syncs < 3

\* the snapshots the callback must receive for the fetched snapshots s: the
\* first one, and every one whose fingerprint differs from the last delivered
RECURSIVE ExpectedDeliveries(_)
ExpectedDeliveries(s) ==
  IF s = <<>> THEN <<>>
  ELSE LET before == ExpectedDeliveries(SubSeq(s, 1, Len(s) - 1))
           x == s[Len(s)] IN
       IF before = <<>> \/ JsonStringify(before[Len(before)]) # JsonStringify(x)
       THEN Append(before, x)
       ELSE before

\* C10: the callback fires exactly for the fetches whose fingerprint differs
\* from the last delivered one (the first successful fetch always, also a
\* null room): for [A, A, A, B] it fires twice, with A and with B.
C10_CallbackPerChange ==
  \A p \in Pollers :
    /\ poll[p].delivered = ExpectedDeliveries(poll[p].fetched)
    /\ poll[p].fetched = <<65, 65, 65, 66>> => poll[p].delivered = <<65, 66>>
    /\ (poll[p].fetched # <<>> /\ poll[p].fetched[1] = NullRoom)
         => (poll[p].delivered # <<>> /\ poll[p].delivered[1] = NullRoom)

C10_Witness ==
  \E p \in Pollers :
    /\ poll[p].fetched = <<65, 65, 65, 66>>
    /\ poll[p].delivered = <<65, 66>>

----------------------------------------------------------------------------
(* pollRoomUpdates: the delay between fetches *)

RECURSIVE Pow(_, _)
Pow(b, n) == IF n = 0 THEN 1 ELSE b * Pow(b, n - 1)

Max(a, b) == IF a >= b THEN a ELSE b

\* the number of fetches at the end of the history that returned the snapshot
\* of the fetch before them (fetches that failed are not part of the history)
RECURSIVE UnchangedStreak(_)
UnchangedStreak(s) ==
  IF Len(s) <= 1 THEN 0
  ELSE IF JsonStringify(s[Len(s)]) = JsonStringify(s[Len(s) - 1])
       THEN 1 + UnchangedStreak(SubSeq(s, 1, Len(s) - 1))
       ELSE 0

\* d = min(base * 1.5^k, max), stated without division
IsBackedOff(d, base, max, k) ==
  IF Pow(3, k) * base >= Pow(2, k) * max /\ k > 0
  THEN d = max
  ELSE Pow(2, k) * d = Pow(3, k) * base

DelayFollowsHistory(me) ==
  /\ IsBackedOff(me.currentInterval, me.interval, me.maxInterval, UnchangedStreak(me.fetched))
  /\ me.timers > 0 => me.delay = me.currentInterval

\* C11 (as stated): the delay before the next fetch is baseInterval after a
\* fetch that changed the fingerprint and min(baseInterval * 1.5^k,
\* maxInterval) after the k-th consecutive unchanged fetch, and always
\* baseInterval <= currentInterval <= max(baseInterval, maxInterval).
C11_DelayAtLeastBase ==
  \A p \in Pollers :
    poll[p].pc # "idle" =>
      /\ DelayFollowsHistory(poll[p])
      /\ poll[p].interval <= poll[p].currentInterval
      /\ poll[p].currentInterval <= Max(poll[p].interval, poll[p].maxInterval)

\* C11 (amended): the same delays, and always min(baseInterval, maxInterval)
\* <= currentInterval <= max(baseInterval, maxInterval): with a base interval
\* above maxInterval the first unchanged fetch lowers the delay to maxInterval.
C11_DelayWithinRange ==
  \A p \in Pollers :
    poll[p].pc # "idle" =>
      /\ DelayFollowsHistory(poll[p])
      /\ Min(poll[p].interval, poll[p].maxInterval) <= poll[p].currentInterval
      /\ poll[p].currentInterval <= Max(poll[p].interval, poll[p].maxInterval)

\* three unchanged fetches in a row: 3000, 4500, then the cap 5000 < 6750
C11_Witness ==
  \E p \in Pollers :
    /\ poll[p].interval = Interval /\ poll[p].maxInterval = MaxInterval
    /\ poll[p].fetched = <<65, 65, 65, 65>>
    /\ poll[p].pc = "timer" /\ poll[p].delay = MaxInterval

----------------------------------------------------------------------------
(* pollRoomUpdates: cancellation *)

\* C12: once the cancel function has been called, the poller starts no
\* further fetch and schedules no further timer; the callback fires at most
\* one more time, and only for the fetch that was in flight; a pending timer
\* fires without fetching.
C12_CancelStopsLoop ==
  [][\A p \in Pollers :
       poll[p].cancelledAt >= 0 =>
         /\ poll'[p].fetches = poll[p].fetches
         /\ poll'[p].timers <= poll[p].timers
         /\ poll'[p].timers < poll[p].timers => poll'[p].pc = "stopped"
         /\ Len(poll'[p].delivered) <= poll[p].cancelledAt + 1
         /\ Len(poll'[p].delivered) > Len(poll[p].delivered)
              => (poll[p].inflight = 1 /\ poll'[p].inflight = 0 /\ poll'[p].pc = "stopped")]_vars

\* cancelled during a fetch whose result then fired the callback once more
C12_Witness ==
  \E p \in Pollers :
    /\ poll[p].cancelledAt >= 0
    /\ Len(poll[p].delivered) = poll[p].cancelledAt + 1
    /\ poll[p].pc = "stopped" /\ poll[p].timers = 0 /\ poll[p].inflight = 0

----------------------------------------------------------------------------
(* pollRoomUpdates: sequencing *)

\* C13: a poller instance never has more than one fetch outstanding and never
\* more than one timer pending; a fetch is started only when no fetch is
\* outstanding, by the first poll() or by the firing of the one pending
\* timer, in a step of its own after the step that ran the callback.
C13_OneFetchAtATime ==
  [][\A p \in Pollers :
       /\ poll'[p].inflight + poll'[p].timers <= 1
       /\ poll'[p].fetches > poll[p].fetches =>
            /\ poll[p].inflight = 0
            /\ poll'[p].fetches = poll[p].fetches + 1
            /\ poll[p].pc = "idle" \/ (poll[p].timers = 1 /\ poll'[p].timers = 0)
            /\ poll'[p].delivered = poll[p].delivered
            /\ poll'[p].fetched = poll[p].fetched]_vars

\* the third fetch is outstanding, after two callbacks and two timers
C13_Witness ==
  \E p \in Pollers :
    /\ poll[p].fetches = 3 /\ poll[p].inflight = 1 /\ poll[p].timers = 0
    /\ Len(poll[p].delivered) = 2

----------------------------------------------------------------------------
(* useGameStore *)

Running == { p \in Pollers : poll[p].running }

\* C14: for every sequence of startPolling() and stopPolling() calls at most
\* one poller instance is running at any time, also when startPolling() is
\* called before the cancel function of the previous start was stored in
\* pollCanceller.
C14_OnePollerActive == Cardinality(Running) <= 1

StoreKinds == { "createNewRoom", "joinExistingRoom", "leaveCurrentRoom", "submitMove" }

\* C17: when a mutate or query under createNewRoom, joinExistingRoom,
\* leaveCurrentRoom or submitMove rejects, the store operation rejects with
\* that same error and the store's room is what it was when the operation
\* was called.
C17_FailureSurfaces ==
  [][\A o \in Ops :
       (/\ op[o].pc = "await" /\ op'[o].pc = "done"
        /\ op'[o].kind \in StoreKinds
        /\ op'[o].cause # <<>>)
       => /\ op'[o].result = Throw(op'[o].cause[1])
          /\ gameStore'.room = op'[o].roomBefore]_vars

----------------------------------------------------------------------------
(* pollRoomUpdates: termination *)

\* C15: a poller that is never cancelled makes at most maxPolls fetches
\* (failed ones included) and then stops by itself: when every fetch
\* settles, it reaches the stopped state with no timer pending.
C15_StopsAfterMaxPolls ==
  /\ [](\A p \in Pollers : poll[p].fetches <= MaxPolls)
  /\ \A p \in Pollers :
       (poll[p].pc # "idle") ~>
         (/\ poll[p].pc = "stopped" /\ ~poll[p].running
          /\ poll[p].timers = 0 /\ poll[p].inflight = 0
          /\ poll[p].fetches = MaxPolls)

\* stopped by itself after maxPolls fetches, one of which failed
C15_Witness ==
  \E p \in Pollers :
    /\ poll[p].pc = "stopped" /\ poll[p].cancelledAt < 0
    /\ poll[p].fetches = MaxPolls /\ Len(poll[p].fetched) = MaxPolls - 1
    /\ poll[p].timers = 0

----------------------------------------------------------------------------
(* pollRoomUpdates: failed fetches *)

\* the step in which the outstanding fetch of p settles without a snapshot
FetchFailed(p) ==
  /\ poll[p].inflight = 1 /\ poll'[p].inflight = 0
  /\ poll'[p].fetched = poll[p].fetched

\* C16: a fetch that fails does not end the loop and is not surfaced: the
\* callback is not invoked, the last fingerprint (and the delay) stay as
\* they are, and unless the poller was cancelled a timer is set, whose firing
\* starts another fetch unless the poller was cancelled or maxPolls is reached.
C16_FailedFetchContinues ==
  [][\A p \in Pollers :
       /\ FetchFailed(p) =>
            /\ poll'[p].delivered = poll[p].delivered
            /\ poll'[p].lastRoom = poll[p].lastRoom
            /\ poll'[p].currentInterval = poll[p].currentInterval
            /\ gameStore' = gameStore
            /\ poll[p].running =>
                 (poll'[p].pc = "timer" /\ poll'[p].timers = 1 /\ poll'[p].running)
       /\ (poll[p].timers = 1 /\ poll'[p].timers = 0
            /\ poll[p].running /\ poll[p].pollCount < MaxPolls) =>
            (poll'[p].inflight = 1 /\ poll'[p].fetches = poll[p].fetches + 1)]_vars

\* a fetch failed after one that succeeded, and the next fetch is under way
C16_Witness ==
  \E p \in Pollers :
    /\ poll[p].fetches = 3 /\ Len(poll[p].fetched) = 1 /\ Len(poll[p].delivered) = 1
    /\ poll[p].inflight = 1 /\ poll[p].running

----------------------------------------------------------------------------
(* LineraAdapterClass: calls without a session, connectApplication, errors *)

NotConnectedError(kind) ==
  IF kind = "mutate" THEN Throw("Must connect wallet before mutating")
  ELSE IF kind = "connectApplication"
  THEN Throw("Must connect wallet before connecting to application")
  ELSE Throw("Must connect wallet before querying")

\* C18: with no session, query, mutate, queryWithSync and connectApplication
\* fail with a not-connected error in the step that enters them, before any
\* remote call is issued, and leave session, binding and the persisted keys as
\* they are; so does the query() inside queryWithSync when the session is gone
\* after its sync.
C18_NotConnectedFailsFast ==
  [][\A r \in GatewayReqs :
       (connection = Null /\ (issued' = issued + 1 \/ (req[r].pc = "sync" /\ req'[r] # req[r])))
       => /\ req'[r].pc = "done"
          /\ req'[r].result = NotConnectedError(req'[r].kind)
          /\ req'[r].via = NoHandle
          /\ UNCHANGED <<connection, appConnection, connectPromise, localStorage>>]_vars

\* mutate() failed for want of a session while keys of an earlier session
\* are still persisted
C18_Witness ==
  \E r \in Reqs :
    /\ connection = Null
    /\ req[r].kind = "mutate" /\ req[r].pc = "done"
    /\ req[r].result = Throw("Must connect wallet before mutating")
    /\ localStorage[K_AUTO_SIGNER] # Absent

\* C19: on a connected session connectApplication(id) returns the cached
\* binding in the calling step, with no remote call, when id is the cached
\* applicationId; for any other non-empty id it starts the remote resolution,
\* and when that returns the cache holds the handle resolved for exactly that
\* id, which is what the call returns.
C19_BindingCache ==
  [][\A r \in GatewayReqs :
       /\ \A id \in AppIds :
            (connection # Null /\ ConnectApplication(r, id)) =>
              IF appConnection # Null /\ appConnection.applicationId = id
              THEN /\ req'[r].pc = "done"
                   /\ req'[r].result = ReturnValue(id)
                   /\ req'[r].via = appConnection.application
                   /\ appConnection' = appConnection
              ELSE id # "" =>
                   /\ req'[r].pc = "app_chain" /\ req'[r].appId = id
                   /\ appConnection' = appConnection
       /\ (req[r].kind = "connectApplication" /\ req[r].pc = "app_resolve"
            /\ req'[r].pc = "done" /\ req'[r].result.ok) =>
              /\ appConnection' = [application |-> Handle(req[r].client, req[r].chainId,
                                                            req[r].appId),
                                    applicationId |-> req[r].appId]
              /\ req'[r].result = ReturnValue(req[r].appId)
              /\ req'[r].via = appConnection'.application]_vars

\* a binding for "app1" was cached, and connectApplication("app2") replaced it
C19_Witness ==
  \E r \in Reqs :
    /\ req[r].kind = "connectApplication" /\ req[r].pc = "done"
    /\ req[r].result = ReturnValue("app2")
    /\ appConnection # Null /\ appConnection.applicationId = "app2"
    /\ issued = MaxRequests

RejectedByErrors(r) ==
  /\ req[r].kind \in {"query", "mutate", "queryWithSync"}
  /\ req[r].pc = "done" /\ ~req[r].result.ok
  /\ req[r].parsed # NoEnvelope

FirstMessageOr(parsed, fallback) ==
  IF Len(parsed.errors[1]) > 0 THEN parsed.errors[1][1] ELSE fallback

\* C20 (as stated): when query or mutate rejects because the response carries
\* errors, the error reaches the caller, and session and binding are the
\* same after the call as they were before it.
C20_CachesAsBeforeCall ==
  [][\A r \in Reqs :
       (req[r].pc = "sent" /\ RejectedByErrors(r)')
       => /\ req'[r].result =
               Throw(FirstMessageOr(req'[r].parsed,
                                    IF req[r].kind = "mutate" THEN "Mutation failed"
                                                              ELSE "Query failed"))
          /\ <<connection', appConnection'>> = req[r].before]_vars

\* C20 (amended): ... and session and binding are the same after the call as
\* they were when the response arrived; the call itself may have created the
\* cached binding before it sent the request.
C20_CachesAsAtResponse ==
  [][\A r \in Reqs :
       (req[r].pc = "sent" /\ RejectedByErrors(r)')
       => /\ req'[r].result =
               Throw(FirstMessageOr(req'[r].parsed,
                                    IF req[r].kind = "mutate" THEN "Mutation failed"
                                                              ELSE "Query failed"))
          /\ <<connection', appConnection'>> = <<connection, appConnection>>
          /\ localStorage' = localStorage]_vars

\* the first query of a session bound the application and was then rejected
C20_Witness ==
  \E r \in Reqs :
    /\ req[r].kind = "query" /\ req[r].pc = "done"
    /\ req[r].parsed.errors = Errors(<<"m2", "m1">>)
    /\ req[r].result = Throw("m2")
    /\ req[r].before[2] = Null /\ appConnection # Null

----------------------------------------------------------------------------
(* DynamicSigner *)

SignCalls == { s \in Sigs : sig[s].kind = "sign" /\ sig[s].address # NoAddress }
RejectedForOwner(s) ==
  /\ sig[s].pc = "done" /\ sig[s].settled = "rejected" /\ sig[s].asked = 0
  /\ sig[s].error = OwnerMismatchError(sig[s].owner, sig[s].address)

C22_AddressStable ==
  \A s \in Sigs :
    sig[s].address # NoAddress =>
      /\ sig[s].address = signer.cachedAddress
      /\ sig[s].address = ToLowerCase(sig[s].address)
      /\ sig[s].cachedBefore # NoAddress => sig[s].address = sig[s].cachedBefore
      /\ (sig[s].kind = "containsKey" /\ sig[s].pc = "done") =>
           (sig[s].has <=> ToLowerCase(sig[s].owner) = signer.cachedAddress)
      /\ (sig[s].kind = "sign" /\ sig[s].asked > 0) =>
           ToLowerCase(sig[s].owner) = signer.cachedAddress

\* address() was called while the wallet reported another account than the
\* one cached, and returned the cached address
C22_Witness ==
  \E s \in Sigs :
    /\ sig[s].kind = "address" /\ sig[s].settled = "fulfilled"
    /\ sig[s].cachedBefore # NoAddress
    /\ sig[s].walletThen # NoAddress
    /\ ToLowerCase(sig[s].walletThen) # sig[s].cachedBefore
    /\ sig[s].address = sig[s].cachedBefore

\* C23: sign resolves only with a non-empty signature, the one the wallet
\* produced for the message made of the bytes it was given; when the wallet
\* yields no signature, sign rejects.
C23_ResolvesOnlyWithSignature ==
  \A s \in Sigs :
    (sig[s].kind = "sign" /\ sig[s].settled = "fulfilled") =>
      /\ sig[s].signature # <<>>
      /\ sig[s].signature = WalletSignature(MessageHex(sig[s].value))

----------------------------------------------------------------------------
(* joinRoom: the recent-room list *)

JoinRejects(j) == join.calls[j].pc = "mutate" /\ join'.calls[j].settled = "rejected"
JoinResolves(j) == join.calls[j].pc = "mutate" /\ join'.calls[j].settled = "fulfilled"
Without(list, h) == SelectSeq(list, LAMBDA x : x # h)

\* C24: from the empty list on, the persisted recent-room list always holds
\* at most 10 entries and no chain id twice, and a joinRoom whose mutation
\* rejects leaves it as it was.
C24_BoundedAndDistinct ==
  /\ [](LET recent == RecentRooms(localStorage) IN
        /\ Len(recent) <= 10
        /\ \A i, k \in DOMAIN recent : i # k => recent[i] # recent[k])
  /\ [][\A j \in Joins : JoinRejects(j) => localStorage' = localStorage]_vars

\* the list is full, its oldest room "a" was dropped for an eleventh one, and
\* a joinRoom was rejected
C24_Witness ==
  /\ Len(RecentRooms(localStorage)) = 10
  /\ ~Includes(RecentRooms(localStorage), HostChain(1))
  /\ \E j \in Joins : join.calls[j].settled = "rejected"

\* C25: after every successful joinRoom(h), h is the first entry of the
\* persisted list, also when it was listed before, and the other entries
\* keep their relative order.
C25_JoinedRoomFirst ==
  [][\A j \in Joins :
       JoinResolves(j) =>
         LET h == join.calls[j].hostChainId
             before == Without(RecentRooms(localStorage), h)
             after == RecentRooms(localStorage')
         IN /\ after # <<>> /\ Head(after) = h
            /\ Len(Tail(after)) <= Len(before)
            /\ Tail(after) = SubSeq(before, 1, Len(Tail(after)))]_vars

----------------------------------------------------------------------------
(* performConnect / performConnectWithPrivateKey: phases *)

\* the steps of the two connect bodies
StepsOf(kind) ==
  IF kind = "wallet" THEN BodySteps \ {"wasm"} ELSE BodySteps \ {"owner", "client"}
BodyFails(c) == call[c].pc \in BodySteps /\ call'[c].pc = "done" /\ ~call'[c].result.ok
BodySucceeds(c) == call[c].pc \in BodySteps /\ call'[c].pc = "done" /\ call'[c].result.ok

\* C26: the error of a failed connect attempt identifies the phase that
\* failed: it is not an error that the failure of another phase would give.
C26_ErrorNamesPhase ==
  [][\A c \in Callers :
       BodyFails(c) =>
         \A step \in StepsOf(call[c].kind) \ {call[c].pc}, e \in ErrorValues :
           call'[c].result.error # CatchRethrows(step, e)]_vars

\* C28: both connect bodies store the session only after the chain was bound,
\* with the key generated, the partition claimed, that key registered as the
\* partition's owner in the wallet (setOwner) and the client created before.
C28_SameStepsBothEntryPoints ==
  [][\A c \in Callers :
       BodySucceeds(c) =>
         /\ call[c].pc = "chain"
         /\ call[c].autoSigner # NullAddr
         /\ call[c].chainId # 0
         /\ call[c].registeredOwner = call[c].autoSigner
         /\ call[c].client # 0]_vars

----------------------------------------------------------------------------
(* ensureWasmInitialized *)

InitRunning(n) == wasm.runs[n] \in {"import", "initialize"}
Succeeded == \E n \in Inits : wasm.runs[n] = "resolved"
Called(w) == wcall[w].pc \in {"idle", "done"} /\ wcall'[w] # wcall[w]

\* C27: initWasm never runs twice at once and is not started again once it
\* has succeeded; a call made while a run is in progress follows that run and
\* settles as it does (all of them with the same error when it fails); a call
\* made when no run is in progress and none has succeeded starts a new one.
C27_SingleInitialization ==
  /\ [](\A n, m \in Inits : InitRunning(n) /\ InitRunning(m) => n = m)
  /\ [][Succeeded => wasm'.starts = wasm.starts]_vars
  /\ [][\A w \in WasmCallers, n \in Inits :
          Called(w) /\ InitRunning(n) =>
            wcall'[w].pc = "joined" /\ wcall'[w].on = n /\ wasm' = wasm]_vars
  /\ [][\A n \in Inits :
          /\ (InitRunning(n) /\ wasm'.runs[n] = "resolved") =>
               \A w \in Followers(n) : wcall'[w].pc = "done" /\ wcall'[w].settled = "fulfilled"
          /\ (InitRunning(n) /\ wasm'.runs[n] = "rejected") =>
               \A w, v \in Followers(n) :
                 /\ wcall'[w].pc = "done" /\ wcall'[w].settled = "rejected"
                 /\ wcall'[w].error = wcall'[v].error]_vars
  /\ [][\A w \in WasmCallers :
          (Called(w) /\ ~Succeeded /\ \A n \in Inits : ~InitRunning(n)) =>
            /\ wcall'[w].how = "started"
            /\ wasm'.starts = wasm.starts + 1
            /\ wasm'.runs[wasm'.starts] = "import"]_vars

\* the first run failed, and a second run, started by a later call, succeeded
\* with another call following it
C27_Witness ==
  /\ wasm.runs[1] = "rejected"
  /\ wasm.starts = 2 /\ wasm.runs[2] = "resolved" /\ wasm.wasmInitialized
  /\ \E w, v \in WasmCallers :
       /\ w # v /\ wcall[w].on = 2 /\ wcall[v].on = 2
       /\ wcall[w].how = "started" /\ wcall[v].how = "joined"
       /\ wcall[w].settled = "fulfilled" /\ wcall[v].settled = "fulfilled"

----------------------------------------------------------------------------
(* useGameStore: leaveCurrentRoom, submitMove *)

LeaveCalled(o) ==
  op[o].pc \in {"idle", "done"} /\ op'[o].pc = "await" /\ op'[o].kind = "leaveCurrentRoom"

\* C29: when leaveCurrentRoom is called no poller is left running before the
\* leave mutation goes out, and the operation sets room to null only when
\* that mutation has returned successfully.
C29_LeaveStopsPollingFirst ==
  /\ [][\A o \in Ops : LeaveCalled(o) => \A p \in Pollers : ~poll'[p].running]_vars
  /\ [][\A o \in Ops :
          (op[o].kind = "leaveCurrentRoom" /\ op'[o] # op[o] /\ gameStore'.room # gameStore.room)
          => /\ op[o].awaiting = "leaveRoom" /\ op'[o].pc = "done" /\ op'[o].cause = <<>>
             /\ gameStore'.room = NullRoom]_vars

Moving(o) == op[o].kind = "submitMove" /\ op[o].pc = "await" /\ op'[o] # op[o]

\* C30: submitMove awaits the move mutation first; when it has returned, and
\* only then, one synchronized read (getRoomSynced) is issued, and the step in
\* which that read returns is the only step of the operation that changes
\* room; when the mutation rejects the operation ends without a read.
C30_MoveThenOneSyncedRead ==
  /\ [][\A o \in Ops :
          (op'[o].kind = "submitMove" /\ op'[o].pc = "await" /\ op[o].pc # "await")
          => op'[o].awaiting = "makeMove" /\ gameStore'.room = gameStore.room]_vars
  /\ [][\A o \in Ops :
          (Moving(o) /\ op[o].awaiting = "makeMove") =>
            /\ gameStore'.room = gameStore.room
            /\ \/ op'[o].pc = "await" /\ op'[o].awaiting = "getRoomSynced" /\ op'[o].cause = <<>>
               \/ op'[o].pc = "done" /\ op'[o].cause # <<>>]_vars
  /\ [][\A o \in Ops :
          (Moving(o) /\ op[o].awaiting # "makeMove") =>
            /\ op[o].awaiting = "getRoomSynced"
            /\ op'[o].pc = "done"
            /\ op'[o].cause # <<>> => gameStore'.room = gameStore.room
            /\ ~gameStore'.isLoading]_vars

\* a submitMove has read the room after its mutation and replaced room by the
\* snapshot it got (no poller was started that could have changed room)
C30_Witness ==
  \E o \in Ops :
    /\ op[o].kind = "submitMove" /\ op[o].pc = "done" /\ op[o].cause = <<>>
    /\ op[o].roomBefore # gameStore.room
    /\ \A p \in Pollers : poll[p].pc = "idle"

----------------------------------------------------------------------------
(* useGameStore: joinExistingRoom *)

Joining(o) == op[o].kind = "joinExistingRoom" /\ op[o].pc = "await" /\ op'[o] # op[o]
StartedNow == { p \in Pollers : poll[p].pc = "idle" /\ poll'[p].pc # "idle" }

\* C31: joinExistingRoom awaits the join mutation and nothing else; calling
\* it starts no poller and reads no room; when the mutation has returned
\* successfully one poller is started, in the step that ends the operation,
\* and room is left as it was; when the mutation rejects the pollers are left
\* as they were.
C31_PollerAfterJoin ==
  /\ [][\A o \in Ops :
          (op'[o].kind = "joinExistingRoom" /\ op'[o].pc = "await" /\ op[o].pc # "await")
          => /\ op'[o].awaiting = "joinRoom"
             /\ poll' = poll /\ gameStore'.room = gameStore.room]_vars
  /\ [][\A o \in Ops :
          Joining(o) =>
            /\ op[o].awaiting = "joinRoom" /\ op'[o].pc = "done"
            /\ gameStore'.room = gameStore.room
            /\ op'[o].cause = <<>> =>
                 /\ Cardinality(StartedNow) = 1
                 /\ \A p \in StartedNow : poll'[p].running /\ poll'[p].callback = "setRoom"
            /\ op'[o].cause # <<>> => poll' = poll]_vars

\* a join was rejected while the poller of an earlier join was running
C31_Witness ==
  \E o \in Ops :
    /\ op[o].kind = "joinExistingRoom" /\ op[o].pc = "done" /\ op[o].cause # <<>>
    /\ \E p \in Pollers : poll[p].running

----------------------------------------------------------------------------
(* mutate: overlapping calls *)

\* mutate() is between its response and its return, in the confirmation loop
InConfirmation(r) ==
  req[r].kind = "mutate" /\ req[r].pc \in {"sleep", "chain", "inbox"}

\* C32: mutations are not serialized.  A mutate() entered on a live session
\* while another one is in its confirmation loop sends its payload in the same
\* step, without touching the other call; and every mutate() that resolves has
\* run its own three confirmation attempts and returns the data of its own
\* response.
C32_MutationsOverlap ==
  /\ [][\A r \in Reqs, o \in Reqs :
          ( /\ r # o
            /\ InConfirmation(o)
            /\ connection # Null
            /\ issued' = issued + 1
            /\ req[r].pc \in {"idle", "done"}
            /\ req'[r].kind = "mutate" )
          => /\ req'[r].pc = "sent"
             /\ req'[o] = req[o]]_vars
  /\ [](\A r \in Reqs :
          (req[r].kind = "mutate" /\ req[r].pc = "done" /\ req[r].result.ok)
          => /\ req[r].sleeps = SyncAttempts
             /\ req[r].result.value = req[r].parsed.data)

\* two mutations in their confirmation loops at once, at different attempts
\* and with different response data
C32_Witness ==
  \E r \in Reqs, o \in Reqs :
    /\ InConfirmation(r) /\ req[r].sleeps = 2 /\ req[r].parsed.data = "D1"
    /\ InConfirmation(o) /\ req[o].sleeps = 1 /\ req[o].parsed.data = "D2"

----------------------------------------------------------------------------
(* disconnect and the connect calls in flight *)

\* caller c's connect call resolves in this step
Resolves(c) ==
  ConnectInFlight(c) /\ call'[c].pc = "done" /\ call'[c].result.ok

\* a session is stored, or a chain id or address persisted, in this step
SessionAppears ==
  \/ connection' # Null /\ connection' # connection
  \/ \E k \in {K_CHAIN_ID, K_USER_ADDRESS} :
       localStorage'[k] # Absent /\ localStorage'[k] # localStorage[k]

\* C33: after disconnect() the adapter stays disconnected until a connect call
\* issued after it succeeds: a session is stored and persisted only in a step
\* in which a connect call resolves that no disconnect() has overtaken.
C33_DisconnectOutlastsConnectInFlight ==
  [][SessionAppears => \E c \in Callers : Resolves(c) /\ c \notin overtaken]_vars

----------------------------------------------------------------------------
(* the application binding and the session *)

\* C34: a cached application binding belongs to the current session: there is
\* a session, and the handle was resolved from its client and its chainId.
C34_BindingOfCurrentSession ==
  appConnection # Null =>
    /\ connection # Null
    /\ appConnection.application.client = connection.client
    /\ appConnection.application.chainId = connection.chainId

\* the chain.application(id) round trip of call r is in flight
Resolving(r) == req[r].pc = "app_resolve"

\* C35: for one session and one application id the handle is resolved at
\* most once, also for calls issued together: no two calls have a
\* chain.application round trip for the same client, chain and id in flight.
C35_HandleResolvedOnce ==
  \A r \in Reqs, o \in Reqs :
    (r # o /\ Resolving(r) /\ Resolving(o))
    => <<req[r].client, req[r].chainId, req[r].appId>>
         # <<req[o].client, req[o].chainId, req[o].appId>>

----------------------------------------------------------------------------
(* the persisted identifiers *)


\* the session's identifiers are the persisted ones
PersistedMirrorsSession ==
  connection # Null =>
    /\ localStorage[K_CHAIN_ID] = Stored(connection.chainId)
    /\ localStorage[K_USER_ADDRESS] = Stored(connection.address)

\* C36: the persisted identifiers mirror the session: with a session, chain id
\* and address are the stored ones; with no session and no connect in flight,
\* neither key is present.
C36_PersistedMirrorsSession ==
  /\ PersistedMirrorsSession
  /\ (connection = Null /\ \A c \in Callers : ~ConnectInFlight(c)) =>
       /\ localStorage[K_CHAIN_ID] = Absent
       /\ localStorage[K_USER_ADDRESS] = Absent

----------------------------------------------------------------------------
(* useGameStore: the room after a leave, isLoading *)

\* leaveCurrentRoom has completed successfully and no operation was called
\* since
HasLeft(o) == op[o].kind = "leaveCurrentRoom" /\ op[o].pc = "done" /\ op[o].cause = <<>>

\* C38: after leaveCurrentRoom has completed successfully room stays null
\* until the next operation on the store: no callback of a poller started
\* before the leave sets it again.
C38_RoomStaysNullAfterLeave ==
  (\E o \in Ops : HasLeft(o)) => gameStore.room = NullRoom

\* the operations that set isLoading
LoadingKinds == {"createNewRoom", "joinExistingRoom", "leaveCurrentRoom", "submitMove"}
InFlight(o) == op[o].pc = "await" /\ op[o].kind \in LoadingKinds

\* C39: isLoading is true exactly when at least one of createNewRoom,
\* joinExistingRoom, leaveCurrentRoom, submitMove is in flight, also when two
\* of them overlap.
C39_LoadingIffInFlight ==
  gameStore.isLoading <=> \E o \in Ops : InFlight(o)

----------------------------------------------------------------------------
(* useLineraStore and the adapter *)

StoreConnectInFlight == \E c \in Callers : lineraStore.acts[c] # "idle"

\* C37: whenever no connect action of the connection store is in flight, the
\* store agrees with the adapter: isConnected in the store implies a session
\* in the adapter with the store's chainId and userAddress.
C37_StoreAgreesWithAdapter ==
  (~StoreConnectInFlight /\ lineraStore.isConnected)
  => /\ connection # Null
     /\ connection.chainId = lineraStore.chainId
     /\ connection.address = lineraStore.userAddress

====
